---------------------------- MODULE Spec2Model ----------------------------
(***************************************************************************)
(* A model of src/promql_builder.py: the PromQLBuilder state (metric,      *)
(* functions, binary_ops, arithmetic_ops, full_expression), its mutators,  *)
(* the regular-expression based _parse_query and build().                  *)
(*                                                                         *)
(* Text is a sequence of one-character strings, so that parsing and        *)
(* rendering are computed character by character as the code does.         *)
(* Python objects that can be shared (the MetricSelector and the lists a   *)
(* builder holds) live in a heap and are referred to by their identity.    *)
(***************************************************************************)
EXTENDS Integers, Sequences, FiniteSets, TLC

VARIABLES heap, bld, last, lexer

vars == <<heap, bld, last, lexer>>

(***************************************************************************)
(* Characters and text                                                     *)
(***************************************************************************)

\* Python's None where a str is optional: no character sequence equals it.
None == <<"None">>

Lower == {"a","b","c","d","e","f","g","h","i","j","k","l","m",
          "n","o","p","q","r","s","t","u","v","w","x","y","z"}

Upper == {"A","B","C","D","E","F","G","H","I","J","K","L","M",
          "N","O","P","Q","R","S","T","U","V","W","X","Y","Z"}

Digit == {"0","1","2","3","4","5","6","7","8","9"}

\* str.isspace() / the class \s, on the characters a query can hold.
Space == {" ", "\t", "\n", "\r", "\f"}

\* The class \w.
WordChar == Lower \cup Upper \cup Digit \cup {"_"}

\* [a-zA-Z_:] and [a-zA-Z0-9_:] of the metric patterns.
IdentStart == Lower \cup Upper \cup {"_", ":"}

IdentChar == IdentStart \cup Digit

\* [a-zA-Z_] and [a-zA-Z0-9_] of the label pattern.
LabelStart == Lower \cup Upper \cup {"_"}

LabelChar == LabelStart \cup Digit

\* s[i..j], empty when j < i.
Slice(s, i, j) == IF j < i THEN <<>> ELSE SubSeq(s, i, j)

\* needle in s: some slice of s equals needle.
Contains(s, needle) ==
  \E i \in 1..(Len(s) - Len(needle) + 1) : SubSeq(s, i, i + Len(needle) - 1) = needle

RECURSIVE Concat(_)
\* "".join(parts)
Concat(parts) == IF parts = <<>> THEN <<>> ELSE Head(parts) \o Concat(Tail(parts))

RECURSIVE Join(_, _)
\* sep.join(parts)
Join(sep, parts) ==
  IF parts = <<>> THEN <<>>
  ELSE IF Len(parts) = 1 THEN parts[1]
  ELSE parts[1] \o sep \o Join(sep, Tail(parts))

RECURSIVE LStrip(_)
LStrip(s) == IF s # <<>> /\ Head(s) \in Space THEN LStrip(Tail(s)) ELSE s

RECURSIVE RStrip(_)
RStrip(s) == IF s # <<>> /\ s[Len(s)] \in Space THEN RStrip(SubSeq(s, 1, Len(s) - 1)) ELSE s

\* str.strip()
Strip(s) == RStrip(LStrip(s))

RECURSIVE Split(_, _, _)
\* s.split(c) for a one-character separator c; acc is the piece being read.
Split(s, c, acc) ==
  IF s = <<>> THEN <<acc>>
  ELSE IF Head(s) = c THEN <<acc>> \o Split(Tail(s), c, <<>>)
  ELSE Split(Tail(s), c, Append(acc, Head(s)))

(***************************************************************************)
(* Regular expressions, matched as Python's re does: by backtracking, the  *)
(* first alternative and the greedy (or lazy) repetition tried first.      *)
(* A pattern is a sequence of nodes.                                       *)
(***************************************************************************)

In(S)        == [t |-> "in", s |-> S]
NotIn(S)     == [t |-> "notin", s |-> S]
Lit(c)       == [t |-> "in", s |-> {c}]
Dot          == [t |-> "notin", s |-> {"\n"}]
Star(n)      == [t |-> "star", n |-> n]
Plus(n)      == [t |-> "plus", n |-> n]
LazyStar(n)  == [t |-> "lazystar", n |-> n]
Alt(ps)      == [t |-> "alt", ps |-> ps]
Opt(n)       == Alt(<< <<n>>, <<>> >>)
Grp(k, p)    == [t |-> "seq", ns |-> <<[t |-> "open", k |-> k]>> \o p \o <<[t |-> "close", k |-> k]>>]
Bol          == [t |-> "bol"]
Eol          == [t |-> "eol"]
WordB        == [t |-> "wordb"]
End          == [t |-> "end"]

\* A literal word as a pattern.
Word(w) == <<[t |-> "word", w |-> w]>>

NoMatch == [ok |-> FALSE, s |-> 0, e |-> 0, g |-> <<>>]

\* \b at position i (between s[i-1] and s[i]).
AtWordB(s, i) ==
  LET before == i > 1 /\ s[i - 1] \in WordChar
      after  == i <= Len(s) /\ s[i] \in WordChar
  IN  before # after

\* $ at position i: the end, or just before a final newline.
AtEol(s, i) == i = Len(s) + 1 \/ (i = Len(s) /\ s[i] = "\n")

\* The character at position j belongs to the class n.
Has(n, s, j) == j <= Len(s) /\ (IF n.t = "in" THEN s[j] \in n.s ELSE s[j] \notin n.s)

\* The word w stands at position i.
HasWord(w, s, i) == i + Len(w) - 1 <= Len(s) /\ \A j \in 1..Len(w) : s[i + j - 1] = w[j]

\* How many characters from position i on belong to the class n.
Run(n, s, i) ==
  CHOOSE k \in 0..(Len(s) + 1 - i) :
    (\A j \in i..(i + k - 1) : Has(n, s, j)) /\ ~Has(n, s, i + k)

RECURSIVE MatchAt(_, _, _, _)

\* A greedy repetition takes the largest of the counts ks that let the rest match.
Greedy(rest, s, i, g, ks) ==
  IF ks = {} THEN NoMatch
  ELSE MatchAt(rest, s, i + (CHOOSE k \in ks : \A j \in ks : j <= k), g)

\* A lazy repetition takes the smallest.
Lazy(rest, s, i, g, ks) ==
  IF ks = {} THEN NoMatch
  ELSE MatchAt(rest, s, i + (CHOOSE k \in ks : \A j \in ks : k <= j), g)

\* An alternation takes the first of the alternatives ks that let the rest match.
First(ps, rest, s, i, g, ks) ==
  IF ks = {} THEN NoMatch
  ELSE MatchAt(ps[CHOOSE k \in ks : \A j \in ks : k <= j] \o rest, s, i, g)

\* Match the nodes p, which End closes, against s from position i; g holds the
\* groups' bounds. Repetitions are of single-character classes only.
MatchAt(p, s, i, g) ==
  CASE Head(p).t = "end" -> [ok |-> TRUE, s |-> 0, e |-> i, g |-> g]
    [] Head(p).t \in {"in", "notin"} ->
         IF Has(Head(p), s, i) THEN MatchAt(Tail(p), s, i + 1, g) ELSE NoMatch
    [] Head(p).t = "word" ->
         IF HasWord(Head(p).w, s, i) THEN MatchAt(Tail(p), s, i + Len(Head(p).w), g)
         ELSE NoMatch
    [] Head(p).t = "seq" -> MatchAt(Head(p).ns \o Tail(p), s, i, g)
    [] Head(p).t = "star" ->
         Greedy(Tail(p), s, i, g,
                {k \in 0..Run(Head(p).n, s, i) : MatchAt(Tail(p), s, i + k, g).ok})
    [] Head(p).t = "plus" ->
         Greedy(Tail(p), s, i, g,
                {k \in 1..Run(Head(p).n, s, i) : MatchAt(Tail(p), s, i + k, g).ok})
    [] Head(p).t = "lazystar" ->
         Lazy(Tail(p), s, i, g,
              {k \in 0..Run(Head(p).n, s, i) : MatchAt(Tail(p), s, i + k, g).ok})
    [] Head(p).t = "alt" ->
         First(Head(p).ps, Tail(p), s, i, g,
               {k \in 1..Len(Head(p).ps) : MatchAt(Head(p).ps[k] \o Tail(p), s, i, g).ok})
    [] Head(p).t = "open" -> MatchAt(Tail(p), s, i, [g EXCEPT ![Head(p).k] = <<i, i - 1>>])
    [] Head(p).t = "close" ->
         MatchAt(Tail(p), s, i, [g EXCEPT ![Head(p).k] = <<g[Head(p).k][1], i - 1>>])
    [] Head(p).t = "bol" -> IF i = 1 THEN MatchAt(Tail(p), s, i, g) ELSE NoMatch
    [] Head(p).t = "eol" -> IF AtEol(s, i) THEN MatchAt(Tail(p), s, i, g) ELSE NoMatch
    [] Head(p).t = "wordb" -> IF AtWordB(s, i) THEN MatchAt(Tail(p), s, i, g) ELSE NoMatch

\* Groups not yet matched (the patterns here have at most three).
NoGroups == <<<<0, -1>>, <<0, -1>>, <<0, -1>>>>

\* The match of p that starts at i.
MatchFrom(p, s, i) == [MatchAt(Append(p, End), s, i, NoGroups) EXCEPT !.s = i]

\* The match at the leftmost of the positions where p matches.
Leftmost(p, s, starts) ==
  IF starts = {} THEN NoMatch
  ELSE MatchFrom(p, s, CHOOSE i \in starts : \A j \in starts : i <= j)

\* re.search from position i on: the leftmost match.
SearchFrom(p, s, i) ==
  Leftmost(p, s, {j \in i..(Len(s) + 1) : MatchAt(Append(p, End), s, j, NoGroups).ok})

\* re.search(p, s)
Search(p, s) == SearchFrom(p, s, 1)

\* re.match(p, s): a match at the start only.
Match(p, s) == MatchAt(Append(p, End), s, 1, NoGroups)

\* m.group(k)
Group(s, m, k) == Slice(s, m.g[k][1], m.g[k][2])

RECURSIVE FindAllFrom(_, _, _)
\* re.findall(p, s): the successive non-overlapping matches, left to right; m is
\* the match searched from the current position.
FindAllFrom(p, s, m) ==
  IF ~m.ok THEN <<>>
  ELSE <<m>> \o FindAllFrom(p, s, SearchFrom(p, s, IF m.e > m.s THEN m.e ELSE m.e + 1))

FindAll(p, s) == FindAllFrom(p, s, SearchFrom(p, s, 1))

(***************************************************************************)
(* Values: a function argument or an operand is a str, an int or a float.  *)
(***************************************************************************)

StrV(chars)  == [t |-> "str", v |-> chars]
\* An int, held as its decimal digits.
IntV(digits) == [t |-> "int", v |-> digits]
\* A float, held as the digits before and after the point of its repr.
FloatV(i, f) == [t |-> "float", v |-> <<i, f>>]

RECURSIVE DropZerosLeft(_)
DropZerosLeft(d) == IF Len(d) > 1 /\ Head(d) = "0" THEN DropZerosLeft(Tail(d)) ELSE d

RECURSIVE DropZerosRight(_)
DropZerosRight(d) ==
  IF Len(d) > 1 /\ d[Len(d)] = "0" THEN DropZerosRight(SubSeq(d, 1, Len(d) - 1)) ELSE d

\* float(text) for text over [0-9.]: ok is FALSE where Python raises ValueError
\* (no digit, or more than one point). Magnitudes stay within repr's plain form.
ToFloat(text) ==
  LET parts == Split(text, ".", <<>>)
      ip == parts[1]
      fp == IF Len(parts) > 1 THEN parts[2] ELSE <<>>
      good == Len(parts) <= 2 /\ (ip # <<>> \/ fp # <<>>)
  IN  IF ~good THEN [ok |-> FALSE, v |-> FloatV(<<"0">>, <<"0">>)]
      ELSE [ok |-> TRUE,
            v |-> FloatV(DropZerosLeft(IF ip = <<>> THEN <<"0">> ELSE ip),
                         DropZerosRight(IF fp = <<>> THEN <<"0">> ELSE fp))]

\* str(value)
PyStr(x) ==
  CASE x.t = "str" -> x.v
    [] x.t = "int" -> x.v
    [] x.t = "float" -> x.v[1] \o <<".">> \o x.v[2]

(***************************************************************************)
(* The data classes                                                        *)
(***************************************************************************)

LabelMatcher(name, value, operator) == [name |-> name, value |-> value, operator |-> operator]

Function(name, args, group_by, without) ==
  [name |-> name, args |-> args, group_by |-> group_by, without |-> without]

ArithmeticOperation(operator, value, is_scalar) ==
  [operator |-> operator, value |-> value, is_scalar |-> is_scalar]

BinaryOperation(operator, right) == [operator |-> operator, right |-> right]

\* Python's None where a MetricSelector is optional.
NoMetric == [name |-> None, labels |-> <<>>, range_window |-> None, offset |-> None]

\* LabelMatcher.__str__
LabelStr(l) == l.name \o l.operator \o <<"\"">> \o l.value \o <<"\"">>

\* MetricSelector.__str__ joining the labels as a function's arguments are, with ", ".
MetricStr_spaced(name, labels, range_window, offset) ==
  Concat(<<name,
           IF labels # <<>>
             THEN <<"{">> \o Join(<<",", " ">>, [i \in 1..Len(labels) |-> LabelStr(labels[i])])
                          \o <<"}">>
             ELSE <<>>,
           IF range_window # None /\ range_window # <<>>
             THEN <<"[">> \o range_window \o <<"]">>
             ELSE <<>>,
           IF offset # None /\ offset # <<>>
             THEN <<" ","o","f","f","s","e","t"," ">> \o offset
             ELSE <<>> >>)

\* MetricSelector.__str__ on the selector's fields (labels: the list's items).
MetricStr(name, labels, range_window, offset) ==
  Concat(<<name,
           IF labels # <<>>
             THEN <<"{">> \o Join(<<",">>, [i \in 1..Len(labels) |-> LabelStr(labels[i])]) \o <<"}">>
             ELSE <<>>,
           IF range_window # None /\ range_window # <<>>
             THEN <<"[">> \o range_window \o <<"]">>
             ELSE <<>>,
           IF offset # None /\ offset # <<>>
             THEN <<" ","o","f","f","s","e","t"," ">> \o offset
             ELSE <<>> >>)

(***************************************************************************)
(* Words of the query language                                             *)
(***************************************************************************)

W_rate      == <<"r","a","t","e">>
W_sum       == <<"s","u","m">>
W_avg       == <<"a","v","g">>
W_max       == <<"m","a","x">>
W_min       == <<"m","i","n">>
W_count     == <<"c","o","u","n","t">>
W_quantile  == <<"q","u","a","n","t","i","l","e">>
W_stddev    == <<"s","t","d","d","e","v">>
W_stdvar    == <<"s","t","d","v","a","r">>
W_group     == <<"g","r","o","u","p">>
W_topk      == <<"t","o","p","k">>
W_bottomk   == <<"b","o","t","t","o","m","k">>
W_histogram_quantile ==
  <<"h","i","s","t","o","g","r","a","m","_","q","u","a","n","t","i","l","e">>
W_by        == <<"b","y">>
W_without   == <<"w","i","t","h","o","u","t">>
W_offset    == <<"o","f","f","s","e","t">>
\* The placeholder "$expr".
W_expr      == <<"$","e","x","p","r">>

(***************************************************************************)
(* _parse_query and _parse_labels                                          *)
(***************************************************************************)

\* \s*
Ws == Star(In(Space))

\* [a-zA-Z_:][a-zA-Z0-9_:]*
IdentP == <<In(IdentStart), Star(In(IdentChar))>>

\* (?:rate|sum|avg|max|min|count|quantile|stddev|stdvar)\s*\(\s*([a-zA-Z_:][a-zA-Z0-9_:]*)
FuncMetricP ==
  <<Alt(<<Word(W_rate), Word(W_sum), Word(W_avg), Word(W_max), Word(W_min),
          Word(W_count), Word(W_quantile), Word(W_stddev), Word(W_stdvar)>>),
    Ws, Lit("("), Ws, Grp(1, IdentP)>>

\* \s*{[^}]*}
BracesP == <<Ws, Lit("{"), Star(NotIn({"}"})), Lit("}")>>

\* \s*\[[^\]]*\]
BracketsP == <<Ws, Lit("["), Star(NotIn({"]"})), Lit("]")>>

\* The list metric_patterns, most specific first.
metric_patterns ==
  << FuncMetricP \o BracesP,
     FuncMetricP \o BracketsP,
     FuncMetricP,
     Word(W_histogram_quantile)
       \o <<Ws, Lit("("), LazyStar(Dot), Lit(","), LazyStar(Dot), Grp(1, IdentP)>>,
     <<Grp(1, IdentP)>> \o BracesP,
     <<Grp(1, IdentP)>> \o BracketsP,
     <<Grp(1, IdentP), WordB>> >>

\* m.group(k) if m matched, otherwise the alternative.
GroupOr(s, m, k, otherwise) == IF m.ok THEN Group(s, m, k) ELSE otherwise

\* metric_name = match.group(1); break, with found the patterns that match.
FirstGroup(query, found) ==
  IF found = <<>> THEN None ELSE Group(query, Search(found[1], query), 1)

\* The loop over metric_patterns: group 1 of the first pattern that matches, or None.
FirstMetricName(patterns, query) ==
  FirstGroup(query, SelectSeq(patterns, LAMBDA p : Search(p, query).ok))

\* ([a-zA-Z_][a-zA-Z0-9_]*)\s*([=!]=~?|=~|!~)\s*"([^"]*)"
LabelPairP ==
  <<Grp(1, <<In(LabelStart), Star(In(LabelChar))>>), Ws,
    Grp(2, <<Alt(<< <<In({"=", "!"}), Lit("="), Opt(Lit("~"))>>,
                   <<Lit("="), Lit("~")>>,
                   <<Lit("!"), Lit("~")>> >>)>>),
    Ws, Lit("\""), Grp(3, <<Star(NotIn({"\""}))>>), Lit("\"")>>

\* The labels of a list without those named name.
WithoutName(labels, name) == SelectSeq(labels, LAMBDA l : l.name # name)

RECURSIVE DictSet(_, _)
\* deduplicated_labels[k] = v over the matches in order: a dict keeps a key's first
\* position and its last value. d and the result are sequences of LabelMatcher.
DictSet(d, pairs) ==
  IF pairs = <<>> THEN d
  ELSE LET p == Head(pairs)
           at == {i \in 1..Len(d) : d[i].name = p.name}
       IN  DictSet(IF at = {} THEN Append(d, p)
                   ELSE [i \in 1..Len(d) |-> IF i \in at THEN p ELSE d[i]],
                   Tail(pairs))

RECURSIVE AddLabels(_, _)
\* The second loop of _parse_labels: drop the labels of that name, append the new one.
AddLabels(labels, new) ==
  IF new = <<>> THEN labels
  ELSE AddLabels(Append(WithoutName(labels, Head(new).name), Head(new)), Tail(new))

\* The (name, operator, value) triples re.findall returns, as LabelMatchers.
LabelPairs(labels_str, ms) ==
  [i \in 1..Len(ms) |-> LabelMatcher(Group(labels_str, ms[i], 1),
                                     Group(labels_str, ms[i], 3),
                                     Group(labels_str, ms[i], 2))]

\* _parse_labels(labels_str) on the metric's labels (the metric is set when called).
parse_labels(labels, labels_str) ==
  IF Strip(labels_str) = <<>> THEN labels
  ELSE AddLabels(labels, DictSet(<<>>, LabelPairs(labels_str, FindAll(LabelPairP, labels_str))))

RECURSIVE ParseEach(_, _, _)
\* for labels_str in labels_matches: self._parse_labels(labels_str)
ParseEach(labels, query, ms) ==
  IF ms = <<>> THEN labels
  ELSE ParseEach(parse_labels(labels, Group(query, Head(ms), 1)), query, Tail(ms))

\* ^\d+[smhdwy]$
DurationP == <<Bol, In(Digit), Star(In(Digit)), In({"s","m","h","d","w","y"}), Eol>>

\* \d+[smhdwy]
DurationTokP == <<In(Digit), Star(In(Digit)), In({"s","m","h","d","w","y"})>>

\* The labels: of the braces after the metric name (labels_match), or else of
\* every pair of braces in the query.
SelectorLabels(query, labels_match) ==
  IF labels_match.ok THEN parse_labels(<<>>, Group(query, labels_match, 1))
  ELSE ParseEach(<<>>, query,
                 FindAll(<<Lit("{"), Grp(1, <<Star(NotIn({"}"}))>>), Lit("}")>>, query))

\* The range window: the first brackets' content if parse_duration accepts it.
SelectorRange(query, range_match) ==
  IF range_match.ok /\ Match(DurationP, Group(query, range_match, 1)).ok
    THEN Group(query, range_match, 1) ELSE None

\* The metric selector _parse_query extracts once metric_name is known.
ParseMetric(query, metric_name) ==
  [name |-> metric_name,
   labels |-> SelectorLabels(query,
                Search(Word(metric_name)
                         \o <<Ws, Lit("{"), Grp(1, <<Star(NotIn({"}"}))>>), Lit("}")>>, query)),
   range_window |-> SelectorRange(query,
                      Search(<<Lit("["), Grp(1, <<Star(NotIn({"]"}))>>), Lit("]")>>, query)),
   offset |-> GroupOr(query,
                      Search(Word(W_offset) \o <<In(Space), Ws, Grp(1, DurationTokP)>>, query),
                      1, None)]

\* agg_funcs
agg_funcs ==
  <<W_sum, W_avg, W_min, W_max, W_group, W_count, W_stddev, W_stdvar, W_topk, W_bottomk,
    W_quantile>>

\* [label.strip() for label in parts]
StripAll(parts) == [i \in 1..Len(parts) |-> Strip(parts[i])]

\* [label.strip() for label in text.split(',')]
StripEach(text) == StripAll(Split(text, ",", <<>>))

\* The labels of the clause by_match found, or [].
GroupingLabels(query, by_match) ==
  IF by_match.ok THEN StripEach(Group(query, by_match, 1)) ELSE <<>>

\* rf'{func}.*?{kw}\s*\(\s*([^)]+)\s*\)' searched in query: the clause's labels, or [].
GroupingOf(query, func, kw) ==
  GroupingLabels(query,
    Search(Word(func) \o <<LazyStar(Dot)>> \o Word(kw)
             \o <<Ws, Lit("("), Ws, Grp(1, <<Plus(NotIn({")"}))>>), Ws, Lit(")")>>,
           query))

\* self.functions.append(Function(func, ["$expr"], by_labels, without_labels)) for
\* each of the aggregations found.
AggFunctions(query, found) ==
  [i \in 1..Len(found) |->
     Function(found[i], <<StrV(W_expr)>>,
              GroupingOf(query, found[i], W_by), GroupingOf(query, found[i], W_without))]

\* The loop over agg_funcs: one Function per aggregation whose name is followed by "(".
ParseAggs(query, funcs) ==
  AggFunctions(query,
               SelectSeq(funcs, LAMBDA func : Search(Word(func) \o <<Ws, Lit("(")>>, query).ok))

\* rate\s*\([^[]*\[([^\]]+)\]
RateP ==
  Word(W_rate) \o <<Ws, Lit("("), Star(NotIn({"["})), Lit("["),
                    Grp(1, <<Plus(NotIn({"]"}))>>), Lit("]")>>

\* histogram_quantile\s*\(\s*(0\.\d+)
QuantileP ==
  Word(W_histogram_quantile)
    \o <<Ws, Lit("("), Ws, Grp(1, <<Lit("0"), Lit("."), Plus(In(Digit))>>)>>

\* rf'\s*{re.escape(op)}\s*([0-9.]+)'
OpNumberP(op) == <<Ws>> \o Word(op) \o <<Ws, Grp(1, <<Plus(In(Digit \cup {"."}))>>)>>

\* match and float(match.group(1)) does not raise ValueError
OpMatches(query, op) ==
  /\ Search(OpNumberP(op), query).ok
  /\ ToFloat(Group(query, Search(OpNumberP(op), query), 1)).ok

\* value = float(match.group(1))
OpValue(query, op) == ToFloat(Group(query, Search(OpNumberP(op), query), 1)).v

\* self.binary_ops.append(BinaryOperation(op, value)); break
FirstBinaryOp(query, found) ==
  IF found = <<>> THEN <<>> ELSE <<BinaryOperation(found[1], OpValue(query, found[1]))>>

\* The loop over binary_ops: the first operator followed by a number that float()
\* accepts is recorded and the loop ends.
ParseBinaryOps(query, ops) ==
  FirstBinaryOp(query, SelectSeq(ops, LAMBDA op : OpMatches(query, op)))

\* self.arithmetic_ops.append(ArithmeticOperation(op, value))
EachArithOp(query, found) ==
  [i \in 1..Len(found) |-> ArithmeticOperation(found[i], OpValue(query, found[i]), TRUE)]

\* The loop over arith_ops: every operator followed by a number is recorded.
ParseArithOps(query, ops) ==
  EachArithOp(query, SelectSeq(ops, LAMBDA op : OpMatches(query, op)))

\* if rate_match and self.metric and not self.metric.range_window: the rate's
\* brackets become the range window, unvalidated.
RateRange(query, metric, rate_match) ==
  IF rate_match.ok /\ metric # NoMetric
       /\ (metric.range_window = None \/ metric.range_window = <<>>)
    THEN [metric EXCEPT !.range_window = Group(query, rate_match, 1)]
    ELSE metric

\* self.functions.append(Function("rate", ["$expr"])) when rate_match
RateFunction(rate_match) ==
  IF rate_match.ok THEN <<Function(W_rate, <<StrV(W_expr)>>, <<>>, <<>>)>> ELSE <<>>

\* self.functions.append(Function("histogram_quantile", [quantile, "$expr"]))
QuantileFunction(query, quantile_match) ==
  IF Contains(query, W_histogram_quantile) /\ quantile_match.ok
    THEN <<Function(W_histogram_quantile,
                    <<StrV(Group(query, quantile_match, 1)), StrV(W_expr)>>, <<>>, <<>>)>>
    ELSE <<>>

\* if not self.metric: the first identifier of the query as the metric, or ValueError.
FallbackMetric(query, metric, words) ==
  IF metric # NoMetric THEN metric
  ELSE IF words # <<>>
    THEN [name |-> Slice(query, words[1].s, words[1].e - 1), labels |-> <<>>,
          range_window |-> None, offset |-> None]
    ELSE NoMetric

\* The fields _parse_query leaves; ok = FALSE where it raises ValueError.
Parsed(query, metric, functions) ==
  [ok |-> metric # NoMetric,
   metric |-> metric,
   functions |-> functions,
   binary_ops |-> ParseBinaryOps(query, << <<">">>, <<"<">>, <<">","=">>, <<"<","=">>,
                                          <<"=","=">>, <<"!","=">> >>),
   arithmetic_ops |-> ParseArithOps(query, << <<"+">>, <<"-">>, <<"*">>, <<"/">>,
                                              <<"%">>, <<"^">> >>),
   full_expression |-> query]

\* _parse_query from the rate match on.
ParseFunctions(query, metric, aggs, rate_match) ==
  Parsed(query,
         FallbackMetric(query, RateRange(query, metric, rate_match), FindAll(IdentP, query)),
         aggs \o RateFunction(rate_match)
              \o QuantileFunction(query, Search(QuantileP, query)))

\* _parse_query once metric_name is known (None if no pattern matched).
ParseNamed(query, metric_name) ==
  ParseFunctions(query,
                 IF metric_name # None THEN ParseMetric(query, metric_name) ELSE NoMetric,
                 ParseAggs(query, agg_funcs),
                 Search(RateP, query))

\* _parse_query after query = query.strip().
ParseStripped(query) == ParseNamed(query, FirstMetricName(metric_patterns, query))

\* _parse_query(text): the builder's fields, or ok = FALSE where it raises ValueError.
\* metric is NoMetric or the selector's fields, its labels held as the list's items.
parse_query(text) == ParseStripped(Strip(text))

(***************************************************************************)
(* Lexer                                                                   *)
(*                                                                         *)
(* A Lexer is its text, self.pos (from 0; the current character is         *)
(* text[pos + 1] here, None in the code once pos >= len(text)), the tokens *)
(* list of the tokenize call in progress, and how that call ended.  stops  *)
(* keeps, for each token, self.pos when the token was complete.            *)
(***************************************************************************)

Token(type, value, position) == [type |-> type, value |-> value, position |-> position]

\* Lexer(text), and tokenize() entered.
NewLexer(text) ==
  [text |-> text, pos |-> 0, tokens |-> <<>>, stops |-> <<>>, status |-> "running",
   message |-> [char |-> "", position |-> 0]]

\* No Lexer was made.
NoLexer == [NewLexer(<<>>) EXCEPT !.status = "none"]

\* self.current_char is not None.
HasChar(text, pos) == pos < Len(text)

\* Lexer.error reporting the position counted from 1.
error_one_based(lx) ==
  [lx EXCEPT !.status = "raised",
             !.message = [char |-> lx.text[lx.pos + 1], position |-> lx.pos + 1]]

\* Lexer.error: the ValueError names the current character and self.pos.
error(lx) ==
  [lx EXCEPT !.status = "raised",
             !.message = [char |-> lx.text[lx.pos + 1], position |-> lx.pos]]

RECURSIVE skip_whitespace(_, _)
\* self.pos when skip_whitespace returns.
skip_whitespace(text, pos) ==
  IF HasChar(text, pos) /\ text[pos + 1] \in Space THEN skip_whitespace(text, pos + 1)
  ELSE pos

RECURSIVE NumberLoop(_, _, _)
\* self.pos after the loop of read_number.
NumberLoop(text, pos, has_dot) ==
  IF HasChar(text, pos) /\ (text[pos + 1] \in Digit \/ text[pos + 1] = ".")
    THEN IF text[pos + 1] = "." /\ has_dot THEN pos
         ELSE NumberLoop(text, pos + 1, has_dot \/ text[pos + 1] = ".")
  ELSE pos

\* The read_* return the token and self.pos after it.
read_number(text, start_pos) ==
  LET pos == NumberLoop(text, start_pos, FALSE)
  IN  IF HasChar(text, pos) /\ text[pos + 1] \in {"s","m","h","d","w","y"}
        THEN [token |-> Token("DURATION", Slice(text, start_pos + 1, pos + 1), start_pos),
              pos |-> pos + 1]
        ELSE [token |-> Token("NUMBER", Slice(text, start_pos + 1, pos), start_pos),
              pos |-> pos]

RECURSIVE IdentifierLoop(_, _)
IdentifierLoop(text, pos) ==
  IF HasChar(text, pos) /\ text[pos + 1] \in IdentChar THEN IdentifierLoop(text, pos + 1)
  ELSE pos

read_identifier(text, start_pos) ==
  LET pos == IdentifierLoop(text, start_pos)
      value == Slice(text, start_pos + 1, pos)
      type == IF value \in {<<"b","y">>, <<"w","i","t","h","o","u","t">>} THEN "GROUPING"
              ELSE IF value = <<"o","f","f","s","e","t">> THEN "OFFSET"
              ELSE IF HasChar(text, pos) /\ text[pos + 1] = "(" THEN "FUNCTION"
              ELSE IF HasChar(text, pos) /\ text[pos + 1] \in {"=", "!", "~"}
                THEN "LABEL_NAME"
              ELSE "METRIC_NAME"
  IN  [token |-> Token(type, value, start_pos), pos |-> pos]

RECURSIVE StringLoop(_, _, _)
\* result and self.pos after the loop of read_string: a backslash is dropped and
\* the character after it, if there is one, is taken as it is.
StringLoop(text, pos, result) ==
  IF HasChar(text, pos) /\ text[pos + 1] # "\""
    THEN IF text[pos + 1] = "\\"
           THEN StringLoop(text, pos + 2,
                           IF HasChar(text, pos + 1) THEN Append(result, text[pos + 2])
                           ELSE result)
           ELSE StringLoop(text, pos + 1, Append(result, text[pos + 1]))
  ELSE [pos |-> pos, result |-> result]

read_string(text, start_pos) ==
  LET end == StringLoop(text, start_pos + 1, <<>>)
  IN  [token |-> Token("STRING", end.result, start_pos),
       pos |-> IF HasChar(text, end.pos) THEN end.pos + 1 ELSE end.pos]

read_operator(text, start_pos) ==
  LET two == HasChar(text, start_pos + 1) /\ text[start_pos + 2] \in {"=", "~"}
      op == IF two THEN <<text[start_pos + 1], text[start_pos + 2]>>
            ELSE <<text[start_pos + 1]>>
      type == IF op \in {<<"=">>, <<"!","=">>, <<"=","~">>, <<"!","~">>} THEN "LABEL_OP"
              ELSE IF op \in {<<">">>, <<"<">>, <<">","=">>, <<"<","=">>, <<"=","=">>,
                              <<"!","=">>}
                THEN "BINARY_OP"
              ELSE "ARITHMETIC_OP"
  IN  [token |-> Token(type, op, start_pos), pos |-> IF two THEN start_pos + 2 ELSE start_pos + 1]

\* The token type of the characters that are a token by themselves.
Punctuation ==
  [c \in {"{", "}", "[", "]", "(", ")", ","} |->
     CASE c = "{" -> "LEFT_BRACE"   [] c = "}" -> "RIGHT_BRACE"
       [] c = "[" -> "LEFT_BRACKET" [] c = "]" -> "RIGHT_BRACKET"
       [] c = "(" -> "LEFT_PAREN"   [] c = ")" -> "RIGHT_PAREN"
       [] c = "," -> "COMMA"]

\* tokens.append(token), the lexer now at r.pos.
Appended(lx, r) ==
  [lx EXCEPT !.tokens = Append(@, r.token), !.stops = Append(@, r.pos), !.pos = r.pos]

OperatorStart == {"=", "!", "<", ">", "+", "-", "*", "/", "%", "^"}

\* One turn of the loop of tokenize, the current character being c.
TokenizeTurn(lx, c) ==
  IF c \in Space THEN [lx EXCEPT !.pos = skip_whitespace(lx.text, lx.pos)]
  ELSE IF c \in Digit THEN Appended(lx, read_number(lx.text, lx.pos))
  ELSE IF c \in Lower \cup Upper \cup {"_"} THEN Appended(lx, read_identifier(lx.text, lx.pos))
  ELSE IF c = "\"" THEN Appended(lx, read_string(lx.text, lx.pos))
  ELSE IF c \in OperatorStart THEN Appended(lx, read_operator(lx.text, lx.pos))
  ELSE IF c \in DOMAIN Punctuation
    THEN Appended(lx, [token |-> Token(Punctuation[c], <<c>>, lx.pos), pos |-> lx.pos + 1])
  ELSE error(lx)

(***************************************************************************)
(* Parser                                                                  *)
(*                                                                         *)
(* A parse method is an operator of the tokens and self.pos (from 0) that  *)
(* gives what the method returned and self.pos after it, or the exception  *)
(* it raised: a ValueError with the expected and the found token type of   *)
(* its message, or the AttributeError of None.type.                        *)
(***************************************************************************)

\* self.current_token() is not None.
HasToken(tokens, pos) == pos < Len(tokens)

Got(value, pos) == [ok |-> TRUE, value |-> value, pos |-> pos]

\* raise ValueError(f"Expected {expected}, got {found}")
ValueError(expected, found, pos) ==
  [ok |-> FALSE, exception |-> "ValueError", expected |-> expected, found |-> found,
   pos |-> pos]

\* self.current_token().type with no current token
AttributeError(pos) ==
  [ok |-> FALSE, exception |-> "AttributeError", expected |-> "", found |-> "", pos |-> pos]

expect(tokens, pos, token_type) ==
  IF HasToken(tokens, pos) /\ tokens[pos + 1].type = token_type
    THEN Got(tokens[pos + 1], pos + 1)
  ELSE ValueError(token_type, IF HasToken(tokens, pos) THEN tokens[pos + 1].type ELSE "EOF",
                  pos)

\* The token at pos is one of the types given.
TokenIs(tokens, pos, types) == HasToken(tokens, pos) /\ tokens[pos + 1].type \in types

\* The rest of a turn of parse_label_matchers, the operator and the value expected.
Matcher(name, op, value) ==
  IF ~op.ok THEN op
  ELSE IF ~value.ok THEN value
  ELSE Got(LabelMatcher(name, value.value.value, op.value.value), value.pos)

RECURSIVE parse_label_matchers(_, _, _)
\* One turn of the `while True`, matchers being the list so far.
parse_label_matchers(tokens, pos, matchers) ==
  IF ~HasToken(tokens, pos) THEN AttributeError(pos)
  ELSE IF ~TokenIs(tokens, pos, {"LABEL_NAME", "METRIC_NAME"})
    THEN ValueError("label name", tokens[pos + 1].type, pos)
  ELSE LET op == expect(tokens, pos + 1, "LABEL_OP")
           m == Matcher(tokens[pos + 1].value, op,
                        IF op.ok THEN expect(tokens, op.pos, "STRING") ELSE op)
       IN  IF ~m.ok THEN m
           ELSE IF ~HasToken(tokens, m.pos) \/ TokenIs(tokens, m.pos, {"RIGHT_BRACE"})
             THEN Got(Append(matchers, m.value), m.pos)
           ELSE IF ~expect(tokens, m.pos, "COMMA").ok THEN expect(tokens, m.pos, "COMMA")
           ELSE parse_label_matchers(tokens, m.pos + 1, Append(matchers, m.value))

\* An opening token, what parse gives for the text after it, and a closing token:
\* the value of the middle and self.pos after the closing token.
Enclosed(tokens, inner, closing) ==
  IF ~inner.ok THEN inner
  ELSE IF ~expect(tokens, inner.pos, closing).ok THEN expect(tokens, inner.pos, closing)
  ELSE Got(inner.value, inner.pos + 1)

\* The `if` blocks of parse_metric for the labels, the range window and the offset;
\* r is the metric so far.
MetricLabels(tokens, r) ==
  IF ~TokenIs(tokens, r.pos, {"LEFT_BRACE"}) THEN r
  ELSE LET labels == Enclosed(tokens, parse_label_matchers(tokens, r.pos + 1, <<>>),
                              "RIGHT_BRACE")
       IN  IF ~labels.ok THEN labels
           ELSE Got([r.value EXCEPT !.labels = labels.value], labels.pos)

MetricRange(tokens, r) ==
  IF ~r.ok \/ ~TokenIs(tokens, r.pos, {"LEFT_BRACKET"}) THEN r
  ELSE LET window == Enclosed(tokens, expect(tokens, r.pos + 1, "DURATION"), "RIGHT_BRACKET")
       IN  IF ~window.ok THEN window
           ELSE Got([r.value EXCEPT !.range_window = window.value.value], window.pos)

MetricOffset(tokens, r) ==
  IF ~r.ok \/ ~TokenIs(tokens, r.pos, {"OFFSET"}) THEN r
  ELSE LET offset == expect(tokens, r.pos + 1, "DURATION")
       IN  IF ~offset.ok THEN offset
           ELSE Got([r.value EXCEPT !.offset = offset.value.value], offset.pos)

parse_metric(tokens, pos) ==
  LET name == expect(tokens, pos, "METRIC_NAME")
  IN  IF ~name.ok THEN name
      ELSE MetricOffset(tokens,
             MetricRange(tokens,
               MetricLabels(tokens,
                 Got([NoMetric EXCEPT !.name = name.value.value], name.pos))))

RECURSIVE GroupingLoop(_, _, _)
\* The while loop of parse_grouping, labels being the list so far.
GroupingLoop(tokens, pos, labels) ==
  IF ~HasToken(tokens, pos) \/ TokenIs(tokens, pos, {"RIGHT_PAREN"}) THEN Got(labels, pos)
  ELSE IF ~TokenIs(tokens, pos, {"LABEL_NAME", "METRIC_NAME"})
    THEN ValueError("label name", tokens[pos + 1].type, pos)
  ELSE IF TokenIs(tokens, pos + 1, {"COMMA"})
    THEN GroupingLoop(tokens, pos + 2, Append(labels, tokens[pos + 1].value))
  ELSE IF TokenIs(tokens, pos + 1, {"RIGHT_PAREN"})
    THEN Got(Append(labels, tokens[pos + 1].value), pos + 1)
  ELSE IF ~HasToken(tokens, pos + 1) THEN AttributeError(pos + 1)
  ELSE ValueError("comma or right parenthesis", tokens[pos + 2].type, pos + 1)

\* The value is (by_labels, without_labels).
parse_grouping(tokens, pos) ==
  IF ~TokenIs(tokens, pos, {"GROUPING"}) THEN Got(<< <<>>, <<>> >>, pos)
  ELSE LET open == expect(tokens, pos + 1, "LEFT_PAREN")
           labels == Enclosed(tokens, IF open.ok THEN GroupingLoop(tokens, open.pos, <<>>)
                                      ELSE open, "RIGHT_PAREN")
       IN  IF ~labels.ok THEN labels
           ELSE IF tokens[pos + 1].value = <<"b","y">>
             THEN Got(<<labels.value, <<>> >>, labels.pos)
           ELSE Got(<< <<>>, labels.value>>, labels.pos)

RECURSIVE parse_expression(_, _)
RECURSIVE ArgsLoop(_, _, _)
\* After an argument of parse_function_args: the loop ends or goes on past a comma.
AfterArg(tokens, pos, args) ==
  IF ~HasToken(tokens, pos) \/ TokenIs(tokens, pos, {"RIGHT_PAREN"}) THEN Got(args, pos)
  ELSE IF TokenIs(tokens, pos, {"COMMA"}) THEN ArgsLoop(tokens, pos + 1, args)
  ELSE ValueError("comma or right parenthesis", tokens[pos + 1].type, pos)

\* After an argument r that is an expression.
AfterExpression(tokens, r, args) ==
  IF ~r.ok THEN r ELSE AfterArg(tokens, r.pos, Append(args, r.value))

\* The `while True` of parse_function_args, args being the list so far.
ArgsLoop(tokens, pos, args) ==
  IF ~HasToken(tokens, pos) THEN Got(args, pos)
  ELSE IF TokenIs(tokens, pos, {"NUMBER"})
    THEN AfterArg(tokens, pos + 1, Append(args, ToFloat(tokens[pos + 1].value).v))
  ELSE IF TokenIs(tokens, pos, {"STRING"})
    THEN AfterArg(tokens, pos + 1, Append(args, StrV(tokens[pos + 1].value)))
  ELSE AfterExpression(tokens, parse_expression(tokens, pos), args)

parse_function_args(tokens, pos) ==
  IF TokenIs(tokens, pos, {"RIGHT_PAREN"}) THEN Got(<<>>, pos)
  ELSE ArgsLoop(tokens, pos, <<>>)

\* The function of parse_function once its arguments are closed, with the
\* grouping clause that follows.
Grouped(name, args, grouping) ==
  IF ~grouping.ok THEN grouping
  ELSE Got(Function(name, args, grouping.value[1], grouping.value[2]), grouping.pos)

parse_function(tokens, pos) ==
  LET name == expect(tokens, pos, "FUNCTION")
      open == IF name.ok THEN expect(tokens, name.pos, "LEFT_PAREN") ELSE name
      args == Enclosed(tokens, IF open.ok THEN parse_function_args(tokens, open.pos) ELSE open,
                       "RIGHT_PAREN")
  IN  IF ~args.ok THEN args
      ELSE Grouped(name.value.value, args.value, parse_grouping(tokens, args.pos))

\* The right side of an operation: a number, or an expression.
RightSide(tokens, pos) ==
  IF TokenIs(tokens, pos, {"NUMBER"}) THEN Got(ToFloat(tokens[pos + 1].value).v, pos + 1)
  ELSE parse_expression(tokens, pos)

\* The BinaryOperation holds the operator and the right side.
parse_binary_op(tokens, pos, left) ==
  IF ~TokenIs(tokens, pos, {"BINARY_OP"}) THEN Got(left, pos)
  ELSE LET right == RightSide(tokens, pos + 1)
       IN  IF ~right.ok THEN right
           ELSE Got(BinaryOperation(tokens[pos + 1].value, right.value), right.pos)

\* The value is the tuple (left, op, right).
parse_arithmetic_op(tokens, pos, left) ==
  IF ~TokenIs(tokens, pos, {"ARITHMETIC_OP"}) THEN Got(left, pos)
  ELSE LET right == RightSide(tokens, pos + 1)
       IN  IF ~right.ok THEN right
           ELSE Got(<<left, tokens[pos + 1].value, right.value>>, right.pos)

\* The checks for an operation after the operand left.
Operation(tokens, left) ==
  IF ~left.ok THEN left
  ELSE IF TokenIs(tokens, left.pos, {"ARITHMETIC_OP"})
    THEN parse_arithmetic_op(tokens, left.pos, left.value)
  ELSE IF TokenIs(tokens, left.pos, {"BINARY_OP"})
    THEN parse_binary_op(tokens, left.pos, left.value)
  ELSE left

\* The second check of parse_expression for a grouping clause after a function.
Regrouped(tokens, func) ==
  IF ~func.ok \/ ~TokenIs(tokens, func.pos, {"GROUPING"}) THEN func
  ELSE LET grouping == parse_grouping(tokens, func.pos)
       IN  IF ~grouping.ok THEN grouping
           ELSE Got([func.value EXCEPT !.group_by = grouping.value[1],
                                        !.without = grouping.value[2]], grouping.pos)

parse_expression(tokens, pos) ==
  IF ~HasToken(tokens, pos) THEN ValueError("", "EOF", pos)
  ELSE IF TokenIs(tokens, pos, {"LEFT_PAREN"})
    THEN Operation(tokens, Enclosed(tokens, parse_expression(tokens, pos + 1), "RIGHT_PAREN"))
  ELSE IF TokenIs(tokens, pos, {"FUNCTION"})
    THEN Operation(tokens, Regrouped(tokens, parse_function(tokens, pos)))
  ELSE IF TokenIs(tokens, pos, {"METRIC_NAME"})
    THEN Operation(tokens, parse_metric(tokens, pos))
  ELSE ValueError("", tokens[pos + 1].type, pos)

(***************************************************************************)
(* Objects. A builder holds references: to its MetricSelector (0 for None) *)
(* and to its three lists; a MetricSelector holds a reference to its       *)
(* labels list. A machine state st is [heap, bld]; a call returns the      *)
(* state it leaves, whether it raised ValueError, and what it returned.    *)
(***************************************************************************)

\* The builders a program holds: b, and c once b.clone() or a second constructor ran.
Builders == {"b", "c"}

\* Every builder holds at most five objects; two more are live while a call
\* replaces a MetricSelector and its list.
Ids == 1..(5 * Cardinality(Builders) + 2)

FreeCell == [k |-> "free"]

ListCell(items) == [k |-> "list", items |-> items]

\* MetricSelector(name): labels is the identity of its list.
MetricCell(name, labels, range_window, offset) ==
  [k |-> "MetricSelector", name |-> name, labels |-> labels,
   range_window |-> range_window, offset |-> offset]

NoBuilder ==
  [live |-> FALSE, metric |-> 0, functions |-> 0, binary_ops |-> 0, arithmetic_ops |-> 0,
   full_expression |-> None]

\* The identity a new object gets: the first free one.
NewId(h) == CHOOSE i \in Ids : h[i].k = "free" /\ \A j \in 1..(i - 1) : h[j].k # "free"

\* bool(x) of an Optional[str]
Truthy(x) == x # None /\ x # <<>>

Returned(st, ret) == [st |-> st, raised |-> FALSE, ret |-> ret]

\* return self
ReturnSelf(st) == Returned(st, None)

\* raise ValueError(...)
Raise(st) == [st |-> st, raised |-> TRUE, ret |-> None]

\* self.metric, as the cell it refers to (the metric is set).
MetricOf(st, self) == st.heap[st.bld[self].metric]

\* self.metric.labels, self.functions, self.binary_ops, self.arithmetic_ops: the items.
LabelsOf(st, self) == st.heap[MetricOf(st, self).labels].items

FunctionsOf(st, self) == st.heap[st.bld[self].functions].items

BinaryOpsOf(st, self) == st.heap[st.bld[self].binary_ops].items

ArithmeticOpsOf(st, self) == st.heap[st.bld[self].arithmetic_ops].items

\* if self.full_expression: self.full_expression = None
ClearFullExpression(st, self) ==
  IF Truthy(st.bld[self].full_expression)
    THEN [st EXCEPT !.bld[self].full_expression = None]
    ELSE st

\* The check that opens most mutators: if not self.metric.
HasMetric(st, self) == st.bld[self].metric # 0

(***************************************************************************)
(* The mutators                                                            *)
(***************************************************************************)

\* parse_duration(duration): ok is FALSE where it raises.
parse_duration(duration) == Match(DurationP, duration).ok

\* with_metric that renames the selector the builder holds, when it holds one,
\* and keeps its labels, range window and offset.
with_metric_renames(st, self, name) ==
  IF st.bld[self].metric = 0
    THEN LET lid == NewId(st.heap)
             h1 == [st.heap EXCEPT ![lid] = ListCell(<<>>)]
             mid == NewId(h1)
             h2 == [h1 EXCEPT ![mid] = MetricCell(name, lid, None, None)]
         IN  ReturnSelf([heap |-> h2, bld |-> [st.bld EXCEPT ![self].metric = mid]])
    ELSE ReturnSelf([st EXCEPT !.heap[st.bld[self].metric].name = name])

with_metric(st, self, name) ==
  LET lid == NewId(st.heap)
      h1 == [st.heap EXCEPT ![lid] = ListCell(<<>>)]
      mid == NewId(h1)
      h2 == [h1 EXCEPT ![mid] = MetricCell(name, lid, None, None)]
  IN  ReturnSelf([heap |-> h2, bld |-> [st.bld EXCEPT ![self].metric = mid]])

remove_label(st, self, name) ==
  IF ~HasMetric(st, self) THEN Raise(st)
  ELSE LET lid == NewId(st.heap)
           kept == WithoutName(LabelsOf(st, self), name)
           s1 == [st EXCEPT !.heap[lid] = ListCell(kept),
                            !.heap[st.bld[self].metric].labels = lid]
       IN  ReturnSelf(ClearFullExpression(s1, self))

LabelOperators == { <<"=">>, <<"!","=">>, <<"=","~">>, <<"!","~">> }

\* with_label without its call of remove_label: the old matcher stays.
with_label_keeps_old(st, self, name, value, operator) ==
  IF ~HasMetric(st, self) THEN Raise(st)
  ELSE IF operator \notin LabelOperators THEN Raise(st)
  ELSE ReturnSelf(ClearFullExpression(
         [st EXCEPT !.heap[MetricOf(st, self).labels].items =
                      Append(@, LabelMatcher(name, value, operator))], self))

\* with_label that removes the old matcher before it validates the operator.
with_label_removes_first(st, self, name, value, operator) ==
  IF ~HasMetric(st, self) THEN Raise(st)
  ELSE IF operator \notin LabelOperators THEN Raise(remove_label(st, self, name).st)
  ELSE with_label_keeps_old(remove_label(st, self, name).st, self, name, value, operator)

with_label(st, self, name, value, operator) ==
  IF ~HasMetric(st, self) THEN Raise(st)
  ELSE IF operator \notin LabelOperators THEN Raise(st)
  ELSE LET s1 == remove_label(st, self, name).st
           lid == MetricOf(s1, self).labels
           s2 == [s1 EXCEPT !.heap[lid].items = Append(@, LabelMatcher(name, value, operator))]
       IN  ReturnSelf(ClearFullExpression(s2, self))

with_range(st, self, window) ==
  IF ~HasMetric(st, self) THEN Raise(st)
  ELSE IF ~parse_duration(window) THEN Raise(st)
  ELSE ReturnSelf(ClearFullExpression(
         [st EXCEPT !.heap[st.bld[self].metric].range_window = window], self))

with_offset(st, self, offset) ==
  IF ~HasMetric(st, self) THEN Raise(st)
  ELSE IF ~parse_duration(offset) THEN Raise(st)
  ELSE ReturnSelf(ClearFullExpression(
         [st EXCEPT !.heap[st.bld[self].metric].offset = offset], self))

\* with_function without the search for an existing function: it always appends.
with_function_appends(st, self, name, args, by, without) ==
  ReturnSelf(ClearFullExpression(
    [st EXCEPT !.heap[st.bld[self].functions].items =
                 Append(@, Function(name, args, by, without))], self))

with_function(st, self, name, args, by, without) ==
  LET func == Function(name, args, by, without)
      fs == FunctionsOf(st, self)
      found == {i \in 1..Len(fs) : fs[i].name = name}
      existing_func_index == CHOOSE i \in found : \A j \in found : i <= j
      fid == st.bld[self].functions
      s1 == IF found # {}
              THEN [st EXCEPT !.heap[fid].items[existing_func_index] = func]
              ELSE [st EXCEPT !.heap[fid].items = Append(@, func)]
  IN  ReturnSelf(ClearFullExpression(s1, self))

\* with_rate appending its rate function without the search for an existing one.
with_rate_appends(st, self, window) ==
  IF ~HasMetric(st, self) THEN Raise(st)
  ELSE IF ~parse_duration(window) THEN Raise(st)
  ELSE with_function_appends(
         ClearFullExpression([st EXCEPT !.heap[st.bld[self].metric].range_window = window], self),
         self, W_rate, <<StrV(W_expr)>>, <<>>, <<>>)

with_rate(st, self, window) ==
  IF ~HasMetric(st, self) THEN Raise(st)
  ELSE IF ~parse_duration(window) THEN Raise(st)
  ELSE with_function(
         ClearFullExpression([st EXCEPT !.heap[st.bld[self].metric].range_window = window], self),
         self, W_rate, <<StrV(W_expr)>>, <<>>, <<>>)

ArithmeticOperators == { <<"+">>, <<"-">>, <<"*">>, <<"/">>, <<"%">>, <<"^">> }

BinaryOperators ==
  ArithmeticOperators \cup
    { <<"=","=">>, <<"!","=">>, <<">">>, <<"<">>, <<">","=">>, <<"<","=">>,
      <<"a","n","d">>, <<"o","r">>, <<"u","n","l","e","s","s">> }

\* with_binary_op replacing the entry that has the same operator, as with_label
\* does with the name.
with_binary_op_dedup(st, self, operator, value) ==
  IF operator \notin BinaryOperators THEN Raise(st)
  ELSE ReturnSelf(ClearFullExpression(
         [st EXCEPT !.heap[st.bld[self].binary_ops].items =
                      Append(SelectSeq(@, LAMBDA o : o.operator # operator),
                             BinaryOperation(operator, value))], self))

with_binary_op(st, self, operator, value) ==
  IF operator \notin BinaryOperators THEN Raise(st)
  ELSE ReturnSelf(ClearFullExpression(
         [st EXCEPT !.heap[st.bld[self].binary_ops].items =
                      Append(@, BinaryOperation(operator, value))], self))

with_arithmetic_op(st, self, operator, value) ==
  IF operator \notin ArithmeticOperators THEN Raise(st)
  ELSE LET is_scalar == value.t \in {"str", "float"}
       IN  ReturnSelf(ClearFullExpression(
             [st EXCEPT !.heap[st.bld[self].arithmetic_ops].items =
                          Append(@, ArithmeticOperation(operator, value, is_scalar))], self))

remove_function(st, self, name) ==
  LET fid == NewId(st.heap)
      kept == SelectSeq(FunctionsOf(st, self), LAMBDA f : f.name # name)
      s1 == [st EXCEPT !.heap[fid] = ListCell(kept), !.bld[self].functions = fid]
  IN  ReturnSelf(ClearFullExpression(s1, self))

\* list.pop() when the list is not empty
PopLast(items) == IF items # <<>> THEN SubSeq(items, 1, Len(items) - 1) ELSE items

\* remove_binary_op without its `if self.binary_ops`: pop() on an empty list raises.
remove_binary_op_unguarded(st, self) ==
  IF st.heap[st.bld[self].binary_ops].items = <<>> THEN Raise(st)
  ELSE ReturnSelf(ClearFullExpression(
         [st EXCEPT !.heap[st.bld[self].binary_ops].items = PopLast(@)], self))

remove_binary_op(st, self) ==
  ReturnSelf(ClearFullExpression(
    [st EXCEPT !.heap[st.bld[self].binary_ops].items = PopLast(@)], self))

remove_arithmetic_op(st, self) ==
  ReturnSelf(ClearFullExpression(
    [st EXCEPT !.heap[st.bld[self].arithmetic_ops].items = PopLast(@)], self))

remove_range(st, self) ==
  ReturnSelf(ClearFullExpression(
    IF HasMetric(st, self)
      THEN [st EXCEPT !.heap[st.bld[self].metric].range_window = None]
      ELSE st, self))

remove_offset(st, self) ==
  ReturnSelf(ClearFullExpression(
    IF HasMetric(st, self)
      THEN [st EXCEPT !.heap[st.bld[self].metric].offset = None]
      ELSE st, self))

(***************************************************************************)
(* The inspection methods                                                  *)
(***************************************************************************)

get_labels(st, self) ==
  IF ~HasMetric(st, self) \/ LabelsOf(st, self) = <<>> THEN <<>>
  ELSE [i \in 1..Len(LabelsOf(st, self)) |->
          [name |-> LabelsOf(st, self)[i].name,
           value |-> LabelsOf(st, self)[i].value,
           operator |-> LabelsOf(st, self)[i].operator]]

\* get_label_values(): the dict of label name to value, as its set of items; of
\* two labels with one name the later gives the value.
get_label_values(st, self) ==
  IF ~HasMetric(st, self) \/ LabelsOf(st, self) = <<>> THEN {}
  ELSE {<<LabelsOf(st, self)[i].name, LabelsOf(st, self)[i].value>> :
          i \in {k \in 1..Len(LabelsOf(st, self)) :
                   \A j \in (k + 1)..Len(LabelsOf(st, self)) :
                     LabelsOf(st, self)[j].name # LabelsOf(st, self)[k].name}}

get_binary_ops(st, self) ==
  [i \in 1..Len(BinaryOpsOf(st, self)) |->
     [operator |-> BinaryOpsOf(st, self)[i].operator,
      value |-> BinaryOpsOf(st, self)[i].right]]

get_arithmetic_ops(st, self) ==
  [i \in 1..Len(ArithmeticOpsOf(st, self)) |->
     [operator |-> ArithmeticOpsOf(st, self)[i].operator,
      value |-> ArithmeticOpsOf(st, self)[i].value,
      is_scalar |-> ArithmeticOpsOf(st, self)[i].is_scalar]]

get_metric_name(st, self) ==
  IF ~HasMetric(st, self) THEN None ELSE MetricOf(st, self).name

\* get_functions(): name, args as str(arg), group_by and without of each function.
get_functions(st, self) ==
  [i \in 1..Len(FunctionsOf(st, self)) |->
     [name |-> FunctionsOf(st, self)[i].name,
      args |-> [j \in 1..Len(FunctionsOf(st, self)[i].args) |->
                  PyStr(FunctionsOf(st, self)[i].args[j])],
      group_by |-> FunctionsOf(st, self)[i].group_by,
      without |-> FunctionsOf(st, self)[i].without]]

get_range_window(st, self) ==
  IF ~HasMetric(st, self) THEN None ELSE MetricOf(st, self).range_window

get_offset(st, self) ==
  IF ~HasMetric(st, self) THEN None ELSE MetricOf(st, self).offset

(***************************************************************************)
(* build()                                                                 *)
(***************************************************************************)

\* The test that makes build() return the retained text of a parsed query.
ReturnsOriginal(full_expression) ==
  /\ Truthy(full_expression)
  /\ \/ Contains(full_expression, <<"b","y"," ","(">>)
     \/ Contains(full_expression, <<"w","i","t","h","o","u","t"," ","(">>)
     \/ /\ Contains(full_expression, <<"r","a","t","e","(">>)
        /\ Contains(full_expression, <<"[">>)
     \/ \E op \in { <<">">>, <<"<">>, <<">","=">>, <<"<","=">>, <<"=","=">>, <<"!","=">>,
                    <<"+">>, <<"-">>, <<"*">>, <<"/">>, <<"%">>, <<"^">> } :
          Contains(full_expression, op)

\* One turn of the loop without the special case of rate: rate is rendered with
\* its args and its grouping clause whether or not the metric has a range window.
ApplyFunction_rate_as_any(expr, func, range_window) ==
  LET args == [i \in 1..Len(func.args) |->
                 IF func.args[i].t = "str" /\ func.args[i].v = W_expr
                   THEN expr ELSE PyStr(func.args[i])]
      call == func.name \o <<"(">> \o Join(<<",", " ">>, args) \o <<")">>
  IN  IF func.group_by # <<>>
        THEN call \o <<" ","b","y"," ","(">> \o Join(<<",", " ">>, func.group_by) \o <<")">>
      ELSE IF func.without # <<>>
        THEN call \o <<" ","w","i","t","h","o","u","t"," ","(">>
                  \o Join(<<",", " ">>, func.without) \o <<")">>
      ELSE call

\* One turn of the loop over self.functions.
ApplyFunction(expr, func, range_window) ==
  IF func.name = W_rate /\ Truthy(range_window)
    THEN W_rate \o <<"(">> \o expr \o <<")">>
    ELSE LET args == [i \in 1..Len(func.args) |->
                        IF func.args[i].t = "str" /\ func.args[i].v = W_expr
                          THEN expr ELSE PyStr(func.args[i])]
             call == func.name \o <<"(">> \o Join(<<",", " ">>, args) \o <<")">>
         IN  IF func.group_by # <<>>
               THEN call \o <<" ","b","y"," ","(">> \o Join(<<",", " ">>, func.group_by) \o <<")">>
             ELSE IF func.without # <<>>
               THEN call \o <<" ","w","i","t","h","o","u","t"," ","(">>
                         \o Join(<<",", " ">>, func.without) \o <<")">>
             ELSE call

RECURSIVE ApplyFunctions(_, _, _)
ApplyFunctions(expr, funcs, range_window) ==
  IF funcs = <<>> THEN expr
  ELSE ApplyFunctions(ApplyFunction(expr, Head(funcs), range_window), Tail(funcs), range_window)

\* f"({expr} {operator} {value})"
Wrap(expr, operator, value) ==
  <<"(">> \o expr \o <<" ">> \o operator \o <<" ">> \o PyStr(value) \o <<")">>

RECURSIVE ApplyArithmeticOps(_, _)
ApplyArithmeticOps(expr, ops) ==
  IF ops = <<>> THEN expr
  ELSE ApplyArithmeticOps(Wrap(expr, Head(ops).operator, Head(ops).value), Tail(ops))

RECURSIVE ApplyBinaryOps(_, _)
ApplyBinaryOps(expr, ops) ==
  IF ops = <<>> THEN expr
  ELSE ApplyBinaryOps(Wrap(expr, Head(ops).operator, Head(ops).right), Tail(ops))

\* str(self.metric)
MetricSelectorStr(st, self) ==
  LET m == MetricOf(st, self)
  IN  MetricStr(m.name, LabelsOf(st, self), m.range_window, m.offset)

\* A rendering that applies the operations in the order of a single list, the
\* comparison ops before the arithmetic ops.
Render_binary_first(st, self) ==
  ApplyArithmeticOps(
    ApplyBinaryOps(
      ApplyFunctions(MetricSelectorStr(st, self), FunctionsOf(st, self),
                     MetricOf(st, self).range_window),
      BinaryOpsOf(st, self)),
    ArithmeticOpsOf(st, self))

\* The text build() renders from the structured state (the metric is set).
Render(st, self) ==
  ApplyBinaryOps(
    ApplyArithmeticOps(
      ApplyFunctions(MetricSelectorStr(st, self), FunctionsOf(st, self),
                     MetricOf(st, self).range_window),
      ArithmeticOpsOf(st, self)),
    BinaryOpsOf(st, self))

\* build() without the check of self.metric: it renders what there is.
build_unchecked(st, self) ==
  IF ReturnsOriginal(st.bld[self].full_expression)
    THEN Returned(st, st.bld[self].full_expression)
  ELSE IF ~HasMetric(st, self)
    THEN Returned(st, ApplyFunctions(None, FunctionsOf(st, self), None))
  ELSE Returned(st, Render(st, self))

\* A build() that drops the retained text once it has returned it.
build_forgets(st, self) ==
  IF ~HasMetric(st, self) THEN Raise(st)
  ELSE IF ReturnsOriginal(st.bld[self].full_expression)
    THEN Returned([st EXCEPT !.bld[self].full_expression = None],
                  st.bld[self].full_expression)
  ELSE Returned(st, Render(st, self))

build(st, self) ==
  IF ~HasMetric(st, self) THEN Raise(st)
  ELSE IF ReturnsOriginal(st.bld[self].full_expression)
    THEN Returned(st, st.bld[self].full_expression)
  ELSE Returned(st, Render(st, self))

\* get_query_info(): every accessor's value and, with a metric, build().
get_query_info(st, self) ==
  Returned(st,
    [metric_name |-> get_metric_name(st, self),
     labels |-> get_labels(st, self),
     functions |-> get_functions(st, self),
     range_window |-> get_range_window(st, self),
     offset |-> get_offset(st, self),
     binary_ops |-> get_binary_ops(st, self),
     arithmetic_ops |-> get_arithmetic_ops(st, self),
     full_query |-> IF HasMetric(st, self) THEN build(st, self).ret ELSE None])

(***************************************************************************)
(* Construction, the observable state, and clone                           *)
(***************************************************************************)

\* The identities new objects get, in the order they are created: the free ones
\* from i on.
FreeFrom(h, i) ==
  SelectSeq([j \in 1..Cardinality(Ids) |-> j], LAMBDA j : j >= i /\ h[j].k = "free")

\* __init__: builder self gets new lists holding v's functions, binary_ops and
\* arithmetic_ops and, unless v.metric is NoMetric, a new MetricSelector with a new
\* labels list; its full_expression is text. new are the identities to use.
Install(st, self, new, v, text) ==
  [heap |-> [i \in Ids |->
               IF i = new[1] THEN ListCell(v.functions)
               ELSE IF i = new[2] THEN ListCell(v.binary_ops)
               ELSE IF i = new[3] THEN ListCell(v.arithmetic_ops)
               ELSE IF v.metric # NoMetric /\ i = new[4] THEN ListCell(v.metric.labels)
               ELSE IF v.metric # NoMetric /\ i = new[5]
                 THEN MetricCell(v.metric.name, new[4], v.metric.range_window, v.metric.offset)
               ELSE st.heap[i]],
   bld |-> [st.bld EXCEPT ![self] =
              [live |-> TRUE,
               metric |-> IF v.metric # NoMetric THEN new[5] ELSE 0,
               functions |-> new[1], binary_ops |-> new[2], arithmetic_ops |-> new[3],
               full_expression |-> text]]]

\* The fields __init__ sets before it parses.
NoFields == [metric |-> NoMetric, functions |-> <<>>, binary_ops |-> <<>>, arithmetic_ops |-> <<>>]

\* if query: self._parse_query(query), with p what _parse_query finds.
ConstructParsed(st, self, p) ==
  IF ~p.ok THEN Raise(st)
  ELSE ReturnSelf(Install(st, self, FreeFrom(st.heap, 1), p, p.full_expression))

\* PromQLBuilder(query): the builder self is created; with a query that is not empty
\* _parse_query fills it, and where that raises no builder is created.
Construct(st, self, query) ==
  IF query = <<>> THEN ReturnSelf(Install(st, self, FreeFrom(st.heap, 1), NoFields, None))
  ELSE ConstructParsed(st, self, parse_query(query))

\* The fields of a builder that does not exist yet.
NoView ==
  [metric |-> NoMetric, functions |-> <<>>, binary_ops |-> <<>>, arithmetic_ops |-> <<>>,
   full_expression |-> None]

\* The structured state of builder self and its retained text.
View(st, self) ==
  IF ~st.bld[self].live THEN NoView
  ELSE [metric |-> IF HasMetric(st, self)
                     THEN [name |-> MetricOf(st, self).name,
                           labels |-> LabelsOf(st, self),
                           range_window |-> MetricOf(st, self).range_window,
                           offset |-> MetricOf(st, self).offset]
                     ELSE NoMetric,
        functions |-> FunctionsOf(st, self),
        binary_ops |-> BinaryOpsOf(st, self),
        arithmetic_ops |-> ArithmeticOpsOf(st, self),
        full_expression |-> st.bld[self].full_expression]

\* The structured state alone.
Structure(st, self) ==
  [metric |-> View(st, self).metric,
   functions |-> View(st, self).functions,
   binary_ops |-> View(st, self).binary_ops,
   arithmetic_ops |-> View(st, self).arithmetic_ops]

\* A clone that copies the builder's references: both hold the same objects.
clone_shares(st, self, other, keep_text) ==
  Returned([st EXCEPT !.bld[other] =
              [st.bld[self] EXCEPT !.full_expression = IF keep_text THEN @ ELSE None]],
           other)

\* other = self.clone(), which the repository's tests and examples call: a new builder
\* other with copies of its own of the metric, its labels list and the three lists.
\* The retained text need not be copied: keep_text says whether it is.
clone(st, self, other, keep_text) ==
  Returned(Install(st, other, FreeFrom(st.heap, 1), View(st, self),
                   IF keep_text THEN st.bld[self].full_expression ELSE None),
           other)

(***************************************************************************)
(* Object identities are not observable, only sharing is: after every call *)
(* the live objects are renamed in the order a walk from b, then c, meets  *)
(* them, and cells no builder reaches are freed.                           *)
(***************************************************************************)

RECURSIVE Uniq(_, _)
Uniq(ids, seen) ==
  IF ids = <<>> THEN <<>>
  ELSE IF Head(ids) = 0 \/ Head(ids) \in seen THEN Uniq(Tail(ids), seen)
  ELSE <<Head(ids)>> \o Uniq(Tail(ids), seen \cup {Head(ids)})

Walk(st, self) ==
  LET r == st.bld[self]
  IN  IF ~r.live THEN <<>>
      ELSE <<r.metric, IF r.metric # 0 THEN st.heap[r.metric].labels ELSE 0,
             r.functions, r.binary_ops, r.arithmetic_ops>>

\* The new name of object id: its place in the walk.
Renamed(order, id) == IF id = 0 THEN 0 ELSE CHOOSE i \in 1..Len(order) : order[i] = id

RenamedCell(order, c) ==
  IF c.k = "MetricSelector" THEN [c EXCEPT !.labels = Renamed(order, c.labels)] ELSE c

InOrder(st, order) ==
  [heap |-> [i \in Ids |-> IF i <= Len(order) THEN RenamedCell(order, st.heap[order[i]])
                           ELSE FreeCell],
   bld |-> [w \in Builders |->
              [st.bld[w] EXCEPT !.metric = Renamed(order, @),
                                !.functions = Renamed(order, @),
                                !.binary_ops = Renamed(order, @),
                                !.arithmetic_ops = Renamed(order, @)]]]

Canon(st) == InOrder(st, Uniq(Walk(st, "b") \o Walk(st, "c"), {}))

(***************************************************************************)
(* The state machine: one action per public method. last records the call  *)
(* that led to the state: the method, the builder, the arguments, whether  *)
(* it raised and what it returned.                                         *)
(***************************************************************************)

\* The longest list of operations a run grows.
MaxOps == 2

\* The longest run of mutator calls after c = b.clone().
MaxCalls == 2

St == [heap |-> heap, bld |-> bld]

Empty == [heap |-> [i \in Ids |-> FreeCell], bld |-> [w \in Builders |-> NoBuilder]]

Call(op, self, args) == [op |-> op, self |-> self, args |-> args]

\* The calls that change a builder.
Mutators ==
  {"with_metric", "with_label", "with_range", "with_offset", "with_function", "with_rate",
   "with_binary_op", "with_arithmetic_op", "remove_label", "remove_function",
   "remove_binary_op", "remove_arithmetic_op", "remove_range", "remove_offset"}

\* before is what the program could observe of the builder when the call began,
\* calls the number of mutator calls made so far on a builder and its clone.
Record(call, r, before, calls) ==
  [op |-> call.op, self |-> call.self, args |-> call.args, raised |-> r.raised, ret |-> r.ret,
   before |-> before, calls |-> calls]

Becomes(st, l) == heap' = st.heap /\ bld' = st.bld /\ last' = l /\ lexer' = lexer

\* The call ends with result r.
Do(call, r) ==
  Becomes(Canon(r.st),
          Record(call, r, View(St, call.self),
                 IF bld["c"].live /\ call.op \in Mutators THEN last.calls + 1 ELSE last.calls))

Starts(st, l) == heap = st.heap /\ bld = st.bld /\ last = l /\ lexer = NoLexer

Began(call, r) == Starts(Canon(r.st), Record(call, r, View(Empty, call.self), 0))

\* The state after self = PromQLBuilder(query).
Constructed(self, query) ==
  Began(Call("PromQLBuilder", self, <<query>>), Construct(Empty, self, query))

\* A mutator can be called on a builder that exists; a run makes at most MaxCalls
\* mutator calls once there are two builders.
Callable(self) == bld[self].live /\ last.calls < MaxCalls

WithMetric(self, names) ==
  \E name \in names :
    /\ Callable(self)
    /\ Do(Call("with_metric", self, <<name>>), with_metric(St, self, name))

WithLabel(self, labels) ==
  \E l \in labels :
    /\ Callable(self)
    /\ Do(Call("with_label", self, l), with_label(St, self, l[1], l[2], l[3]))

WithRange(self, durations) ==
  \E window \in durations :
    /\ Callable(self)
    /\ Do(Call("with_range", self, <<window>>), with_range(St, self, window))

WithOffset(self, durations) ==
  \E offset \in durations :
    /\ Callable(self)
    /\ Do(Call("with_offset", self, <<offset>>), with_offset(St, self, offset))

WithFunction(self, functions) ==
  \E f \in functions :
    /\ Callable(self)
    /\ Do(Call("with_function", self, f), with_function(St, self, f[1], f[2], f[3], f[4]))

WithRate(self, durations) ==
  \E window \in durations :
    /\ Callable(self)
    /\ Do(Call("with_rate", self, <<window>>), with_rate(St, self, window))

WithBinaryOp(self, ops) ==
  \E o \in ops :
    /\ Callable(self)
    /\ Len(BinaryOpsOf(St, self)) < MaxOps
    /\ Do(Call("with_binary_op", self, o), with_binary_op(St, self, o[1], o[2]))

WithArithmeticOp(self, ops) ==
  \E o \in ops :
    /\ Callable(self)
    /\ Len(ArithmeticOpsOf(St, self)) < MaxOps
    /\ Do(Call("with_arithmetic_op", self, o), with_arithmetic_op(St, self, o[1], o[2]))

RemoveLabel(self, names) ==
  \E name \in names :
    /\ Callable(self)
    /\ Do(Call("remove_label", self, <<name>>), remove_label(St, self, name))

RemoveFunction(self, names) ==
  \E name \in names :
    /\ Callable(self)
    /\ Do(Call("remove_function", self, <<name>>), remove_function(St, self, name))

RemoveBinaryOp(self) ==
  /\ Callable(self)
  /\ Do(Call("remove_binary_op", self, <<>>), remove_binary_op(St, self))

RemoveArithmeticOp(self) ==
  /\ Callable(self)
  /\ Do(Call("remove_arithmetic_op", self, <<>>), remove_arithmetic_op(St, self))

RemoveRange(self) ==
  /\ Callable(self)
  /\ Do(Call("remove_range", self, <<>>), remove_range(St, self))

RemoveOffset(self) ==
  /\ Callable(self)
  /\ Do(Call("remove_offset", self, <<>>), remove_offset(St, self))

Build(self) ==
  /\ bld[self].live
  /\ Do(Call("build", self, <<>>), build(St, self))

GetQueryInfo(self) ==
  /\ bld[self].live
  /\ Do(Call("get_query_info", self, <<>>), get_query_info(St, self))

\* The get_* methods that take no argument, get_query_info() apart.
Accessors ==
  {"get_metric_name", "get_labels", "get_label_values", "get_functions", "get_range_window",
   "get_offset", "get_binary_ops", "get_arithmetic_ops"}

\* What the accessor returns.
AccessorValue(st, self, accessor) ==
  CASE accessor = "get_metric_name" -> get_metric_name(st, self)
    [] accessor = "get_labels" -> get_labels(st, self)
    [] accessor = "get_label_values" -> get_label_values(st, self)
    [] accessor = "get_functions" -> get_functions(st, self)
    [] accessor = "get_range_window" -> get_range_window(st, self)
    [] accessor = "get_offset" -> get_offset(st, self)
    [] accessor = "get_binary_ops" -> get_binary_ops(st, self)
    [] accessor = "get_arithmetic_ops" -> get_arithmetic_ops(st, self)

\* A call of one of the accessors: none of them assigns to a field.
Get(self, accessors) ==
  \E accessor \in accessors :
    /\ bld[self].live
    /\ Do(Call(accessor, self, <<>>), Returned(St, AccessorValue(St, self, accessor)))

\* c = b.clone()
Clone ==
  \E keep_text \in BOOLEAN :
    /\ bld["b"].live
    /\ ~bld["c"].live
    /\ Do(Call("clone", "b", <<>>), clone(St, "b", "c", keep_text))

\* c = PromQLBuilder(b.build()), right after b.build() returned.
Reparse ==
  /\ last.op = "build" /\ last.self = "b" /\ ~last.raised
  /\ ~bld["c"].live
  /\ Do(Call("PromQLBuilder", "c", <<last.ret>>), Construct(St, "c", last.ret))

\* A run of a builder and its clone calls the mutators once the clone exists.
Ready(cloning) == cloning => bld["c"].live

\* Any mutator on builder self, its arguments drawn from the sets of in; cloning
\* says whether the run is one of a builder and its clone.
Mutate(self, in, cloning) ==
  \/ Ready(cloning) /\ WithMetric(self, in.names)
  \/ Ready(cloning) /\ WithLabel(self, in.labels)
  \/ Ready(cloning) /\ WithRange(self, in.durations)
  \/ Ready(cloning) /\ WithOffset(self, in.durations)
  \/ Ready(cloning) /\ WithFunction(self, in.functions)
  \/ Ready(cloning) /\ WithRate(self, in.durations)
  \/ Ready(cloning) /\ WithBinaryOp(self, in.binary_ops)
  \/ Ready(cloning) /\ WithArithmeticOp(self, in.arithmetic_ops)
  \/ Ready(cloning) /\ RemoveLabel(self, {l[1] : l \in in.labels})
  \/ Ready(cloning) /\ RemoveFunction(self, {f[1] : f \in in.functions})
  \/ Ready(cloning) /\ RemoveBinaryOp(self)
  \/ Ready(cloning) /\ RemoveArithmeticOp(self)
  \/ Ready(cloning) /\ RemoveRange(self)
  \/ Ready(cloning) /\ RemoveOffset(self)

(***************************************************************************)
(* The arguments the runs draw from                                        *)
(***************************************************************************)

W_x      == <<"x">>
W_http_requests_total ==
  <<"h","t","t","p","_","r","e","q","u","e","s","t","s","_","t","o","t","a","l">>
W_status == <<"s","t","a","t","u","s">>
W_method == <<"m","e","t","h","o","d">>
W_job    == <<"j","o","b">>
W_200    == <<"2","0","0">>
W_500    == <<"5","0","0">>
W_GET    == <<"G","E","T">>
W_5m     == <<"5","m">>
W_1h     == <<"1","h">>
W_5x     == <<"5","x">>

\* sum(x) by (job)
Q_sum_by == W_sum \o <<"(">> \o W_x \o <<")"," ">> \o W_by \o <<" ","(">> \o W_job \o <<")">>

\* x{status!~"500"}
Q_selector == W_x \o <<"{">> \o W_status \o <<"!","~","\"">> \o W_500 \o <<"\"","}">>

\* The queries the builder b starts from: none (PromQLBuilder()), one whose text
\* build() returns as it is, one it renders from the parsed state.
Queries == { <<>>, Q_sum_by, Q_selector }

\* What Mutate draws from: labels are (name, value, operator), "==" being an operator
\* with_label rejects; 5x is no duration; functions are (name, args, by, without);
\* binary_ops and arithmetic_ops are (operator, value), "=" and ">" being operators
\* they reject.
Inputs ==
  [names |-> {W_http_requests_total},
   labels |-> { <<W_status, W_200, <<"=">> >>, <<W_status, W_200, <<"=","=">> >> },
   durations |-> {W_5m, W_5x},
   functions |-> { <<W_sum, <<StrV(W_expr)>>, <<W_job>>, <<>> >> },
   binary_ops |-> { << <<">">>, IntV(<<"5">>) >>, << <<"=">>, IntV(<<"5">>) >> },
   arithmetic_ops |-> { << <<"*">>, IntV(<<"1","0","0">>) >>,
                        << <<">">>, IntV(<<"1","0","0">>) >> }]

\* Arguments every call succeeds with on a builder that has a metric.
FewInputs ==
  [names |-> {W_x},
   labels |-> { <<W_status, W_200, <<"=">> >> },
   durations |-> {W_5m},
   functions |-> { <<W_rate, <<StrV(W_expr)>>, <<>>, <<>> >> },
   binary_ops |-> { << <<">">>, IntV(<<"5">>) >> },
   arithmetic_ops |-> { << <<"*">>, IntV(<<"1","0","0">>) >> }]

(***************************************************************************)
(* Spec: one builder b, every mutator and build()                          *)
(***************************************************************************)

Init == \E query \in Queries : Constructed("b", query)

Next == Mutate("b", Inputs, FALSE) \/ Build("b")

Spec == Init /\ [][Next]_vars

(***************************************************************************)
(* SpecSelector: a builder built with with_metric, with_label, with_range, *)
(* with_offset and their removals                                          *)
(***************************************************************************)

SelectorLabelArgs ==
  { <<W_status, W_200, <<"=">> >>, <<W_status, W_500, <<"!","~">> >>,
    <<W_method, W_GET, <<"=">> >>, <<W_method, W_GET, <<"=","=">> >> }

InitSelector == \E query \in {<<>>, Q_selector} : Constructed("b", query)

NextSelector ==
  \/ WithMetric("b", {W_http_requests_total})
  \/ WithLabel("b", SelectorLabelArgs)
  \/ WithRange("b", {W_5m, W_5x})
  \/ WithOffset("b", {W_1h, W_5x})
  \/ RemoveLabel("b", {W_status, W_method})
  \/ RemoveRange("b")
  \/ RemoveOffset("b")
  \/ Build("b")

SpecSelector == InitSelector /\ [][NextSelector]_vars

(***************************************************************************)
(* SpecFunctions: a builder and its functions list                         *)
(***************************************************************************)

FunctionArgs ==
  { <<W_sum, <<StrV(W_expr)>>, <<W_job>>, <<>> >>,
    <<W_sum, <<StrV(W_expr)>>, <<>>, <<W_method>> >>,
    <<W_rate, <<StrV(W_expr)>>, <<>>, <<>> >>,
    <<W_histogram_quantile, <<FloatV(<<"0">>, <<"9","5">>), StrV(W_expr)>>, <<>>, <<>> >> }

InitFunctions == \E query \in {<<>>, Q_sum_by} : Constructed("b", query)

NextFunctions ==
  \/ WithMetric("b", {W_x})
  \/ WithFunction("b", FunctionArgs)
  \/ WithRate("b", {W_5m, W_5x})
  \/ RemoveFunction("b", {W_sum, W_rate})
  \/ Build("b")

SpecFunctions == InitFunctions /\ [][NextFunctions]_vars

(***************************************************************************)
(* SpecClone: b, parsed from a query, and its clone c; once c exists, up   *)
(* to MaxCalls mutator calls on either, and build() on either              *)
(***************************************************************************)

\* rate(x{status=~"200"}[5m] offset 5m) * 2 > 5
Q_all ==
  W_rate \o <<"(">> \o W_x \o <<"{">> \o W_status \o <<"=","~","\"">> \o W_200
    \o <<"\"","}","[">> \o W_5m \o <<"]"," ">> \o W_offset \o <<" ">> \o W_5m
    \o <<")"," ","*"," ","2"," ",">"," ","5">>

InitClone == \E query \in Queries \cup {Q_all} : Constructed("b", query)

NextClone ==
  \/ Clone
  \/ Mutate("b", FewInputs, TRUE)
  \/ Mutate("c", FewInputs, TRUE)
  \/ Build("b")
  \/ Build("c")

SpecClone == InitClone /\ [][NextClone]_vars

(***************************************************************************)
(* SpecParse: b parsed from a query of the grammar, b.build(), and c parsed *)
(* from what b.build() returned                                            *)
(***************************************************************************)

W_abs == <<"a","b","s">>

\* {a="1"}, {a!="1"}, {a=~"1"}, {a!~"1"}, or no labels
LabelTexts ==
  {<<>>} \cup {<<"{","a">> \o op \o <<"\"","1","\"","}">> : op \in LabelOperators}

RangeTexts == {<<>>, <<"[">> \o W_5m \o <<"]">>}

OffsetTexts == {<<>>, <<" ">> \o W_offset \o <<" ">> \o W_1h}

\* metricSelector := IDENT ('{' labelMatcher '}')? ('[' DURATION ']')? ('offset' DURATION)?
Selectors == {W_x \o l \o r \o o : l \in LabelTexts, r \in RangeTexts, o \in OffsetTexts}

GroupingTexts ==
  {<<>>, <<" ">> \o W_by \o <<" ","(">> \o W_job \o <<")">>,
         <<" ">> \o W_without \o <<" ","(">> \o W_job \o <<")">>}

\* FUNCNAME '(' args ')' (groupingClause)?
FunctionCalls ==
  {f \o <<"(">> \o a \o <<")">> \o g :
     f \in {W_sum, W_rate, W_abs},
     a \in {W_x, W_x \o <<"[">> \o W_5m \o <<"]">>, W_x \o <<"{","a","=","~","\"","1","\"","}">>,
            W_count \o <<"(">> \o W_x \o <<")">>},
     g \in GroupingTexts}

\* a trailing arithmetic or comparison operator with a number
OperatorTexts == {<<>>, <<" ",">"," ","5">>, <<" ","*"," ","2">>}

GrammarQueries == {t \o o : t \in Selectors \cup FunctionCalls, o \in OperatorTexts}

InitParse == \E query \in GrammarQueries : Constructed("b", query)

NextParse == Build("b") \/ Reparse

SpecParse == InitParse /\ [][NextParse]_vars

(***************************************************************************)
(* SpecDuration: with_range and with_offset on every short text            *)
(***************************************************************************)

\* The longest text passed as a duration.
MaxLen == 3

DurationChars == {"5", "m", "x", "\n"}

RECURSIVE TextsUpTo(_)
TextsUpTo(n) ==
  IF n = 0 THEN {<<>>}
  ELSE TextsUpTo(n - 1) \cup {Append(t, c) : t \in TextsUpTo(n - 1), c \in DurationChars}

InitDuration == \E query \in {<<>>, W_x} : Constructed("b", query)

NextDuration ==
  \/ WithMetric("b", {W_x})
  \/ WithRange("b", TextsUpTo(MaxLen))
  \/ WithOffset("b", TextsUpTo(MaxLen))

SpecDuration == InitDuration /\ [][NextDuration]_vars

(***************************************************************************)
(* SpecOps: a builder, its functions and its two lists of operations       *)
(***************************************************************************)

W_a   == <<"a">>
W_1   == <<"1">>
W_and == <<"a","n","d">>

\* (operator, value): ">" and "and" are comparison operators, "=" is none.
BinaryOpArgs ==
  { << <<">">>, IntV(<<"5">>) >>, << W_and, StrV(W_x) >>, << <<"=">>, IntV(<<"5">>) >> }

\* (operator, value): "*" and "+" are arithmetic operators, ">" is none.
ArithmeticOpArgs ==
  { << <<"*">>, IntV(<<"1","0","0">>) >>, << <<"+">>, FloatV(<<"0">>, <<"5">>) >>,
    << <<">">>, IntV(<<"1","0","0">>) >> }

InitOps == \E query \in {<<>>, W_x} : Constructed("b", query)

NextOps ==
  \/ WithMetric("b", {W_x})
  \/ WithLabel("b", { <<W_a, W_1, <<"=">> >> })
  \/ WithFunction("b", { <<W_sum, <<StrV(W_expr)>>, <<W_job>>, <<>> >> })
  \/ WithBinaryOp("b", BinaryOpArgs)
  \/ WithArithmeticOp("b", ArithmeticOpArgs)
  \/ RemoveBinaryOp("b")
  \/ RemoveArithmeticOp("b")
  \/ Build("b")

SpecOps == InitOps /\ [][NextOps]_vars

(***************************************************************************)
(* SpecRate: b parsed from rate(<name>{<labels>}[<d>]) or rate(<name>[<d>]) *)
(***************************************************************************)

W_10d == <<"1","0","d">>

\* The label matchers between the braces: status="500", a=~"1", a!="b",z!~"w",
\* and path=~"sum(1)", whose value holds a parenthesis.
RateLabelTexts ==
  { W_status \o <<"=","\"">> \o W_500 \o <<"\"">>,
    <<"a","=","~","\"","1","\"">>,
    <<"a","!","=","\"","b","\"",",","z","!","~","\"","w","\"">>,
    <<"p","a","t","h","=","~","\"">> \o W_sum \o <<"(","1",")","\"">> }

\* The parts of a query rate(<name>{<labels>}[<d>]); labels is None where the
\* query has no braces.
RateForms ==
  [name : {W_x, W_http_requests_total, <<"a",":","b">>},
   labels : {None} \cup RateLabelTexts,
   d : {W_5m, W_1h, W_10d}]

RateText(r) ==
  W_rate \o <<"(">> \o r.name
    \o (IF r.labels = None THEN <<>> ELSE <<"{">> \o r.labels \o <<"}">>)
    \o <<"[">> \o r.d \o <<"]",")">>

InitRate == \E r \in RateForms : Constructed("b", RateText(r))

NextRate == Build("b") \/ RemoveFunction("b", {W_rate}) \/ RemoveRange("b")

SpecRate == InitRate /\ [][NextRate]_vars

(***************************************************************************)
(* SpecAgg: b parsed from an aggregation with a grouping clause             *)
(***************************************************************************)

W_b == <<"b">>

\* The parts of a query <agg>(<inner>) <kind> (<l1>, <l2>), optionally the
\* second argument of histogram_quantile(0.9, ...): inner is x or rate(x[5m]).
AggForms ==
  [agg : {W_sum, W_max, W_count},
   rate : BOOLEAN,
   kind : {W_by, W_without},
   names : {<<W_a>>, <<W_a, W_b>>, <<W_job, W_a>>},
   quantile : BOOLEAN]

AggText(r) ==
  (IF r.quantile THEN W_histogram_quantile \o <<"(","0",".","9",","," ">> ELSE <<>>)
    \o r.agg \o <<"(">>
    \o (IF r.rate THEN W_rate \o <<"(">> \o W_x \o <<"[">> \o W_5m \o <<"]",")">>
                  ELSE W_x)
    \o <<")"," ">> \o r.kind \o <<" ","(">> \o Join(<<","," ">>, r.names) \o <<")">>
    \o (IF r.quantile THEN <<")">> ELSE <<>>)

\* The names of the functions that occur in the query.
AggNames(r) ==
  {r.agg} \cup (IF r.rate THEN {W_rate} ELSE {})
          \cup (IF r.quantile THEN {W_histogram_quantile} ELSE {})

InitAgg == \E r \in AggForms : Constructed("b", AggText(r))

NextAgg == Build("b") \/ RemoveFunction("b", {W_sum, W_rate})

SpecAgg == InitAgg /\ [][NextAgg]_vars

(***************************************************************************)
(* SpecInfo: get_query_info() on a parsed builder, before and after         *)
(* mutations                                                                *)
(***************************************************************************)

\* x{a="1"} > 5
Q_compare == W_x \o <<"{","a","=","\"","1","\"","}"," ",">"," ","5">>

InitInfo == \E query \in Queries \cup {Q_compare} : Constructed("b", query)

NextInfo ==
  \/ WithLabel("b", FewInputs.labels)
  \/ WithRange("b", FewInputs.durations)
  \/ WithFunction("b", FewInputs.functions)
  \/ WithBinaryOp("b", FewInputs.binary_ops)
  \/ WithArithmeticOp("b", FewInputs.arithmetic_ops)
  \/ RemoveFunction("b", {W_sum})
  \/ GetQueryInfo("b")

SpecInfo == InitInfo /\ [][NextInfo]_vars

(***************************************************************************)
(* SpecAccumulate: with_binary_op and with_arithmetic_op with every         *)
(* operator, and the removals                                               *)
(***************************************************************************)

\* Every operator either call accepts, and "=", "=~" and "&&", which neither does.
OperatorTexts15 ==
  { <<"+">>, <<"-">>, <<"*">>, <<"/">>, <<"%">>, <<"^">>, <<"=","=">>, <<"!","=">>, <<">">>,
    <<"<">>, <<">","=">>, <<"<","=">>, W_and, <<"o","r">>, <<"u","n","l","e","s","s">> }

OtherOperatorTexts == { <<"=">>, <<"=","~">>, <<"&","&">> }

InitAccumulate == Constructed("b", W_x)

NextAccumulate ==
  \/ WithBinaryOp("b", {<<op, IntV(<<"5">>)>> : op \in OperatorTexts15 \cup OtherOperatorTexts})
  \/ WithArithmeticOp("b", {<<op, FloatV(<<"0">>, <<"5">>)>> :
                              op \in OperatorTexts15 \cup OtherOperatorTexts})
  \/ RemoveBinaryOp("b")
  \/ RemoveArithmeticOp("b")

SpecAccumulate == InitAccumulate /\ [][NextAccumulate]_vars

(***************************************************************************)
(* SpecWithRate: with_rate among with_range and with_function               *)
(***************************************************************************)

\* (name, args, by, without): rate grouped by job, and sum.
RateFunctionArgs ==
  { <<W_rate, <<StrV(W_expr)>>, <<W_job>>, <<>> >>,
    <<W_sum, <<StrV(W_expr)>>, <<W_job>>, <<>> >> }

InitWithRate == \E query \in {<<>>, Q_sum_by} : Constructed("b", query)

NextWithRate ==
  \/ WithMetric("b", {W_x})
  \/ WithRate("b", {W_5m, W_1h, W_5x})
  \/ WithRange("b", {W_10d})
  \/ WithFunction("b", RateFunctionArgs)
  \/ RemoveFunction("b", {W_rate})
  \/ Build("b")

SpecWithRate == InitWithRate /\ [][NextWithRate]_vars

(***************************************************************************)
(* SpecWindows: b parsed from a query with a range or an offset that may    *)
(* be no duration                                                           *)
(***************************************************************************)

W_5z == <<"5","z">>

\* 5m and 1h are durations; 5z, 5x, m5 and 5 are not.
WindowTexts == {W_5m, W_1h, W_5z, W_5x, <<"m","5">>, <<"5">>}

\* The parts of a query <name>[<range>] offset <offset>, optionally the argument of
\* rate(...); None for a part the query does not have.
WindowForms ==
  [name : {W_x, <<"m","e","t","r","i","c">>},
   rate : BOOLEAN,
   range : {None} \cup WindowTexts,
   offset : {None, W_5m, W_5z}]

WindowText(r) ==
  (IF r.rate THEN W_rate \o <<"(">> ELSE <<>>)
    \o r.name
    \o (IF r.range = None THEN <<>> ELSE <<"[">> \o r.range \o <<"]">>)
    \o (IF r.offset = None THEN <<>> ELSE <<" ">> \o W_offset \o <<" ">> \o r.offset)
    \o (IF r.rate THEN <<")">> ELSE <<>>)

InitWindows == \E r \in WindowForms : Constructed("b", WindowText(r))

NextWindows == Build("b") \/ RemoveRange("b") \/ RemoveOffset("b")

SpecWindows == InitWindows /\ [][NextWindows]_vars

(***************************************************************************)
(* SpecLexer: Lexer(text).tokenize() on every short text, one turn of its   *)
(* loop a step                                                              *)
(***************************************************************************)

\* The longest text given to the Lexer.
MaxText == 4

\* A blank, a digit, a letter (which ends a duration), and characters that are
\* part of a token only inside it (. : ~ and the backslash), or never ($).
LexerChars == {" ", "5", "m", ".", ":", "\"", "\\", "=", "~", "(", "$"}

RECURSIVE LexerTexts(_)
LexerTexts(n) ==
  IF n = 0 THEN {<<>>}
  ELSE LexerTexts(n - 1) \cup {Append(t, c) : t \in LexerTexts(n - 1), c \in LexerChars}

InitLexer ==
  /\ heap = Empty.heap /\ bld = Empty.bld
  /\ last = Record(Call("Lexer", "b", <<>>), ReturnSelf(Empty), NoView, 0)
  /\ \E text \in LexerTexts(MaxText) : lexer = NewLexer(text)

\* while self.current_char is not None: one turn, on the kind of character named.
Turn(kind) ==
  /\ lexer.status = "running"
  /\ HasChar(lexer.text, lexer.pos)
  /\ lexer.text[lexer.pos + 1] \in kind
  /\ lexer' = TokenizeTurn(lexer, lexer.text[lexer.pos + 1])
  /\ UNCHANGED <<heap, bld, last>>

SkipWhitespace == Turn(Space)

ReadNumber == Turn(Digit)

ReadIdentifier == Turn(Lower \cup Upper \cup {"_"})

ReadString == Turn({"\""})

ReadOperator == Turn(OperatorStart)

ReadPunctuation == Turn(DOMAIN Punctuation)

LexerError ==
  Turn(LexerChars \ (Space \cup Digit \cup Lower \cup Upper \cup {"_", "\""}
                       \cup OperatorStart \cup DOMAIN Punctuation))

\* return tokens
ReturnTokens ==
  /\ lexer.status = "running"
  /\ ~HasChar(lexer.text, lexer.pos)
  /\ lexer' = [lexer EXCEPT !.status = "returned"]
  /\ UNCHANGED <<heap, bld, last>>

NextLexer ==
  \/ SkipWhitespace \/ ReadNumber \/ ReadIdentifier \/ ReadString \/ ReadOperator
  \/ ReadPunctuation \/ LexerError \/ ReturnTokens

\* A call of tokenize in progress goes on.
SpecLexer == InitLexer /\ [][NextLexer]_vars /\ WF_vars(NextLexer)

(***************************************************************************)
(* SpecParser: Parser(Lexer(text).tokenize()).parse_expression() on every   *)
(* text that is the beginning of one of a few queries                       *)
(***************************************************************************)

\* sum(rate(x{a="1",b=~"2"}[5m] offset 1h)) by (job, a) > 5
Q_nested ==
  W_sum \o <<"(">> \o W_rate \o <<"(","x","{","a","=","\"","1","\"",",","b","=","~","\"","2",
  "\"","}","[","5","m","]"," ">> \o W_offset \o <<" ","1","h",")",")"," ">> \o W_by
  \o <<" ","(">> \o W_job \o <<","," ","a",")"," ",">"," ","5">>

\* f(1, "s", (x + 2) * y) without (a) by (b)
Q_args ==
  <<"f","(","1",","," ","\"","s","\"",","," ","(","x"," ","+"," ","2",")"," ","*"," ","y",
    ")"," ">> \o W_without \o <<" ","(","a",")"," ">> \o W_by \o <<" ","(","b",")">>

\* Texts that are no queries: x{}, f(1 2), sum(x) by (1), x[5], x{a 1},
\* sum(x) by (a b), and x $, which is no token sequence.
Q_malformed ==
  { <<"x","{","}">>, <<"f","(","1"," ","2",")">>,
    W_sum \o <<"(","x",")"," ">> \o W_by \o <<" ","(","1",")">>,
    <<"x","[","5","]">>, <<"x","{","a"," ","1","}">>,
    W_sum \o <<"(","x",")"," ">> \o W_by \o <<" ","(","a"," ","b",")">>,
    <<"x"," ","$">> }

\* Every beginning of the queries, the whole query included.
ParserTexts ==
  UNION {{SubSeq(q, 1, n) : n \in 0..Len(q)} : q \in {Q_nested, Q_args} \cup Q_malformed}

InitParser ==
  /\ heap = Empty.heap /\ bld = Empty.bld
  /\ last = Record(Call("Lexer", "b", <<>>), ReturnSelf(Empty), NoView, 0)
  /\ \E text \in ParserTexts : lexer = NewLexer(text)

\* Parser(tokens).parse_expression(), tokens being what tokenize returned.
ParseExpression ==
  /\ lexer.status = "returned"
  /\ last.op = "Lexer"
  /\ last' = [last EXCEPT !.op = "parse_expression",
                          !.args = <<lexer.tokens>>,
                          !.raised = ~parse_expression(lexer.tokens, 0).ok,
                          !.ret = parse_expression(lexer.tokens, 0)]
  /\ UNCHANGED <<heap, bld, lexer>>

NextParser == NextLexer \/ ParseExpression

SpecParser == InitParser /\ [][NextParser]_vars

(***************************************************************************)
(* SpecGrouping: with_function with by, without, both or neither, on a     *)
(* builder that may be parsed from a query with both clauses               *)
(***************************************************************************)

\* sum(x) by (a) without (b)
Q_by_without ==
  W_sum \o <<"(">> \o W_x \o <<")"," ">> \o W_by \o <<" ","(","a",")"," ">>
    \o W_without \o <<" ","(","b",")">>

\* (name, args, by, without)
GroupingArgs ==
  { <<f, <<StrV(W_expr)>>, by, without>> :
      f \in {W_sum, W_max}, by \in {<<>>, <<W_a>>}, without \in {<<>>, <<W_b>>, <<W_job, W_a>>} }

InitGrouping == \E query \in {<<>>, Q_sum_by, Q_by_without} : Constructed("b", query)

NextGrouping ==
  \/ WithMetric("b", {W_x})
  \/ WithFunction("b", GroupingArgs)
  \/ WithLabel("b", FewInputs.labels)
  \/ RemoveFunction("b", {W_sum})
  \/ Build("b")

SpecGrouping == InitGrouping /\ [][NextGrouping]_vars

(***************************************************************************)
(* SpecMatchers: a builder parsed from x{a<op>"1"}, with_label and         *)
(* remove_label                                                            *)
(***************************************************************************)

\* The four operators of a label matcher, and three texts that are none.
MatcherOperatorTexts ==
  LabelOperators \cup { <<"=","=">>, <<"=","=","~">>, <<"!","=","~">> }

\* x{a<op>"1"}
MatcherText(op) == W_x \o <<"{","a">> \o op \o <<"\"","1","\"","}">>

\* (name, value, operator)
MatcherArgs ==
  { <<name, W_200, op>> : name \in {W_a, W_status}, op \in MatcherOperatorTexts }

InitMatchers ==
  \E query \in {<<>>} \cup {MatcherText(op) : op \in MatcherOperatorTexts} :
    Constructed("b", query)

NextMatchers ==
  \/ WithMetric("b", {W_x})
  \/ WithLabel("b", MatcherArgs)
  \/ RemoveLabel("b", {W_a})
  \/ Build("b")

SpecMatchers == InitMatchers /\ [][NextMatchers]_vars

(***************************************************************************)
(* SpecRateRender: build() on a builder whose functions include one named  *)
(* rate, with and without a range window                                   *)
(***************************************************************************)

\* (name, args, by, without): rate with the placeholder alone, with a second
\* argument and a by clause, with a without clause; and sum.
RateRenderArgs ==
  { <<W_rate, <<StrV(W_expr)>>, <<>>, <<>> >>,
    <<W_rate, <<StrV(W_expr), IntV(W_1)>>, <<W_job>>, <<>> >>,
    <<W_rate, <<StrV(W_expr)>>, <<>>, <<W_a, W_b>> >>,
    <<W_sum, <<StrV(W_expr)>>, <<W_job>>, <<>> >> }

InitRateRender == \E query \in {<<>>, W_x} : Constructed("b", query)

NextRateRender ==
  \/ WithMetric("b", {W_x})
  \/ WithLabel("b", { <<W_a, W_1, <<"=">> >> })
  \/ WithRange("b", {W_5m})
  \/ WithOffset("b", {W_1h})
  \/ RemoveRange("b")
  \/ WithFunction("b", RateRenderArgs)
  \/ RemoveFunction("b", {W_rate, W_sum})
  \/ Build("b")

SpecRateRender == InitRateRender /\ [][NextRateRender]_vars

(***************************************************************************)
(* SpecOperations: Parser(Lexer(text).tokenize()).parse_expression() on    *)
(* <left> <operator> <right>                                               *)
(***************************************************************************)

ArithmeticTexts == { <<"+">>, <<"*">> }

ComparisonTexts == { <<">">>, <<"=","=">> }

\* The parts of a query <left> <op> <right>: left is a selector, a parenthesized
\* expression or a function call with a grouping clause; right is a number, a
\* metric, a parenthesized expression, or $, which is no token.
OperationForms ==
  [left : { W_x, <<"x","{","a","=","\"","1","\"","}">>, <<"(","x",")">>,
            W_sum \o <<"(","x",")"," ">> \o W_by \o <<" ","(","a",")">> },
   op : ArithmeticTexts \cup ComparisonTexts,
   right : { <<"5">>, <<"y">>, <<"(","y",")">>, <<"$">> }]

OperationText(r) == r.left \o <<" ">> \o r.op \o <<" ">> \o r.right

InitOperations ==
  /\ heap = Empty.heap /\ bld = Empty.bld
  /\ last = Record(Call("Lexer", "b", <<>>), ReturnSelf(Empty), NoView, 0)
  /\ \E r \in OperationForms : lexer = NewLexer(OperationText(r))

NextOperations == NextLexer \/ ParseExpression

SpecOperations == InitOperations /\ [][NextOperations]_vars

(***************************************************************************)
(* SpecScalar: with_arithmetic_op with an int, a float and a str           *)
(***************************************************************************)

\* 100, 0.5, the expression text y and the text 2.5
ScalarValues ==
  { IntV(<<"1","0","0">>), FloatV(<<"0">>, <<"5">>), StrV(<<"y">>), StrV(<<"2",".","5">>) }

\* (operator, value): "*" and "/" are arithmetic operators, ">" is none.
ScalarArgs == { <<op, value>> : op \in { <<"*">>, <<"/">>, <<">">> }, value \in ScalarValues }

InitScalar == \E query \in {<<>>, W_x} : Constructed("b", query)

NextScalar ==
  \/ WithMetric("b", {W_x})
  \/ WithArithmeticOp("b", ScalarArgs)
  \/ RemoveArithmeticOp("b")
  \/ Build("b")

SpecScalar == InitScalar /\ [][NextScalar]_vars

(***************************************************************************)
(* SpecNesting: b parsed from an aggregation around a rate call, mutators   *)
(* that leave the functions alone, and build()                              *)
(***************************************************************************)

\* The parts of a query <agg>(rate(m{<labels>}[<d>])) by (<by>); labels and by are
\* None where the query has none.
NestingForms ==
  [agg : {W_sum, W_avg, W_max},
   labels : {None, <<"a","=","~","\"","1","\"">>},
   d : {W_5m, W_1h},
   by : {None, <<"l">>}]

NestingText(r) ==
  r.agg \o <<"(">> \o W_rate \o <<"(","m">>
    \o (IF r.labels = None THEN <<>> ELSE <<"{">> \o r.labels \o <<"}">>)
    \o <<"[">> \o r.d \o <<"]",")",")">>
    \o (IF r.by = None THEN <<>> ELSE <<" ">> \o W_by \o <<" ","(">> \o r.by \o <<")">>)

InitNesting == \E r \in NestingForms : Constructed("b", NestingText(r))

NextNesting ==
  \/ WithLabel("b", { <<W_status, W_200, <<"=">> >> })
  \/ RemoveLabel("b", {W_a})
  \/ WithRange("b", {W_10d})
  \/ WithOffset("b", {W_1h})
  \/ WithBinaryOp("b", { << <<">">>, IntV(<<"5">>) >> })
  \/ RemoveBinaryOp("b")
  \/ Build("b")

SpecNesting == InitNesting /\ [][NextNesting]_vars

(***************************************************************************)
(* SpecSubstitute: with_function with argument lists that hold the          *)
(* placeholder $expr, hold it inside a longer text, or do not hold it       *)
(***************************************************************************)

\* rate($expr)
W_rate_expr == W_rate \o <<"(">> \o W_expr \o <<")">>

\* (name, args, by, without): abs($expr), abs(), sum($expr) by (job),
\* histogram_quantile(0.95, $expr), histogram_quantile(0.95, "rate($expr)"), vector(1)
SubstituteArgs ==
  { <<W_abs, <<StrV(W_expr)>>, <<>>, <<>> >>,
    <<W_abs, <<>>, <<>>, <<>> >>,
    <<W_sum, <<StrV(W_expr)>>, <<W_job>>, <<>> >>,
    <<W_histogram_quantile, <<FloatV(<<"0">>, <<"9","5">>), StrV(W_expr)>>, <<>>, <<>> >>,
    <<W_histogram_quantile, <<FloatV(<<"0">>, <<"9","5">>), StrV(W_rate_expr)>>, <<>>, <<>> >>,
    <<<<"v","e","c","t","o","r">>, <<IntV(W_1)>>, <<>>, <<>> >> }

InitSubstitute == \E query \in {<<>>, W_x} : Constructed("b", query)

NextSubstitute ==
  \/ WithMetric("b", {W_x})
  \/ WithLabel("b", { <<W_a, W_1, <<"=">> >> })
  \/ WithRange("b", {W_5m})
  \/ WithFunction("b", SubstituteArgs)
  \/ RemoveFunction("b", {W_abs, W_histogram_quantile})
  \/ Build("b")

SpecSubstitute == InitSubstitute /\ [][NextSubstitute]_vars

(***************************************************************************)
(* SpecPure: build() and the accessors among mutators, on a builder that    *)
(* may hold the text it was parsed from                                     *)
(***************************************************************************)

InitPure == \E query \in Queries \cup {Q_compare, Q_all} : Constructed("b", query)

NextPure ==
  \/ WithLabel("b", FewInputs.labels)
  \/ WithFunction("b", FewInputs.functions)
  \/ WithArithmeticOp("b", FewInputs.arithmetic_ops)
  \/ RemoveRange("b")
  \/ Build("b")
  \/ GetQueryInfo("b")
  \/ Get("b", Accessors)

SpecPure == InitPure /\ [][NextPure]_vars

(***************************************************************************)
(* Properties                                                              *)
(***************************************************************************)

\* The state a step leads to.
StNext == [heap |-> heap', bld |-> bld']

\* A text without its whitespace.
Squeeze(text) == SelectSeq(text, LAMBDA ch : ch \notin Space)

\* One or more digits followed by one of s, m, h, d, w, y.
IsDuration(w) ==
  /\ Len(w) >= 2
  /\ \A i \in 1..(Len(w) - 1) : w[i] \in Digit
  /\ w[Len(w)] \in {"s", "m", "h", "d", "w", "y"}

RECURSIVE LabelList(_)
\* name+operator+"value" of each label, joined by commas.
LabelList(labels) ==
  IF labels = <<>> THEN <<>>
  ELSE Head(labels).name \o Head(labels).operator \o <<"\"">> \o Head(labels).value \o <<"\"">>
       \o (IF Len(labels) > 1 THEN <<",">> ELSE <<>>) \o LabelList(Tail(labels))

\* The text of a selector: name, {labels} if any, [range] if set, offset if set.
SelectorText(m) ==
  m.name
    \o (IF m.labels # <<>> THEN <<"{">> \o LabelList(m.labels) \o <<"}">> ELSE <<>>)
    \o (IF m.range_window # None THEN <<"[">> \o m.range_window \o <<"]">> ELSE <<>>)
    \o (IF m.offset # None THEN <<" ">> \o W_offset \o <<" ">> \o m.offset ELSE <<>>)

\* C1: the label names of a metric are pairwise distinct in every state, and when
\* with_label(n, v, op) has returned the metric holds exactly one label named n,
\* the last of the list, with value v and operator op.
C1_LabelDedup ==
  LET labels == View(St, "b").metric.labels
  IN  /\ \A i, j \in 1..Len(labels) : labels[i].name = labels[j].name => i = j
      /\ (last.op = "with_label" /\ ~last.raised) =>
            /\ Cardinality({i \in 1..Len(labels) : labels[i].name = last.args[1]}) = 1
            /\ labels[Len(labels)] = LabelMatcher(last.args[1], last.args[2], last.args[3])

\* with_label(n, v2, op2) has returned on a metric that held two labels, one of
\* them named n with another value.
C1_Replaced ==
  /\ last.op = "with_label" /\ ~last.raised
  /\ Len(last.before.metric.labels) = 2
  /\ \E i \in 1..2 : /\ last.before.metric.labels[i].name = last.args[1]
                      /\ last.before.metric.labels[i].value # last.args[2]

\* C2: no two functions share a name in any state, and with_function(f, ...) puts
\* the new function where the function named f was, every other entry and the
\* length unchanged, or appends it at the end when there was none.
C2_FunctionDedup ==
  LET new == View(St, "b").functions
      old == last.before.functions
      func == Function(last.args[1], last.args[2], last.args[3], last.args[4])
  IN  /\ \A i, j \in 1..Len(new) : new[i].name = new[j].name => i = j
      /\ last.op = "with_function" =>
            /\ ~last.raised
            /\ IF \E i \in 1..Len(old) : old[i].name = func.name
                 THEN /\ Len(new) = Len(old)
                      /\ \A i \in 1..Len(old) :
                           new[i] = IF old[i].name = func.name THEN func ELSE old[i]
                 ELSE new = Append(old, func)

\* with_function(f, ...) has returned on a list of two or more functions whose
\* first was named f and had another grouping.
C2_ReplacedFirst ==
  /\ last.op = "with_function" /\ ~last.raised
  /\ Len(last.before.functions) >= 2
  /\ last.before.functions[1].name = last.args[1]
  /\ last.before.functions[1].group_by # last.args[3]

\* What a step leaves of builder w: its state and what its build() does.
Untouched(w) ==
  /\ View(StNext, w) = View(St, w)
  /\ build(StNext, w).raised = build(St, w).raised
  /\ build(StNext, w).ret = build(St, w).ret

\* C3: c = b.clone() leaves b as it was and makes c a builder with b's metric,
\* labels, range, offset, functions, arithmetic ops and comparison ops; a call on
\* one of b and c leaves the state and the build() of the other as they were.
C3_CloneIndependence ==
  [][/\ last'.op = "clone" =>
          /\ bld'["c"].live
          /\ Structure(StNext, "c") = Structure(St, "b")
          /\ Untouched("b")
     /\ \A w \in Builders : (bld[w].live /\ last'.self # w) => Untouched(w)]_vars

\* A mutator has changed b after c = b.clone(), and b and c differ.
C3_Diverged ==
  /\ bld["c"].live
  /\ last.op \in Mutators /\ last.self = "b" /\ ~last.raised
  /\ View(St, "b") # last.before
  /\ Structure(St, "b") # Structure(St, "c")

\* C4: when a mutator has returned normally the retained original text is None.
C4_TextCleared ==
  (last.op \in Mutators /\ ~last.raised) => View(St, last.self).full_expression = None

\* C5: build() on the unmutated builder parsed from a query of the grammar returns
\* the query, whitespace aside.
C5_RoundTrip ==
  (last.op = "build" /\ last.self = "b") =>
    /\ ~last.raised
    /\ Squeeze(last.ret) = Squeeze(View(St, "b").full_expression)

\* C6: the builder parsed from what b.build() returned has the structured state of b.
C6_IdempotentReparse ==
  (last.op = "PromQLBuilder" /\ last.self = "c") =>
    /\ ~last.raised
    /\ Structure(St, "c") = Structure(St, "b")

\* C7: when a mutator has raised, the builder's metric, labels, range window,
\* offset, functions, arithmetic ops, comparison ops and retained text are as they
\* were when the call began.
C7_FailedCallChangesNothing ==
  (last.op \in Mutators /\ last.raised) => View(St, last.self) = last.before

\* with_label has raised for its operator on a metric that holds a label of that name.
C7_RejectedOperator ==
  /\ last.op = "with_label" /\ last.raised
  /\ last.args[3] \notin LabelOperators
  /\ \E i \in 1..Len(last.before.metric.labels) :
        last.before.metric.labels[i].name = last.args[1]

\* C8: with_range(w) and with_offset(w) raise when no metric is set; with a metric
\* they succeed exactly when w is one or more digits followed by one of s, m, h,
\* d, w, y, and then get_range_window() (get_offset()) returns w.
C8_DurationFormat ==
  last.op \in {"with_range", "with_offset"} =>
    IF last.before.metric = NoMetric THEN last.raised
    ELSE /\ ~last.raised <=> IsDuration(last.args[1])
         /\ ~last.raised =>
              last.args[1] = IF last.op = "with_range" THEN get_range_window(St, "b")
                                                        ELSE get_offset(St, "b")

\* C9: build() raises exactly when no metric is set, and returns a text otherwise.
C9_BuildRaises ==
  last.op = "build" =>
    /\ last.raised <=> ~HasMetric(St, last.self)
    /\ ~last.raised => last.ret # None /\ Len(last.ret) >= 1

\* build() has raised on a builder with functions and no metric.
C9_NoMetric ==
  /\ last.op = "build" /\ last.raised
  /\ View(St, "b").functions # <<>>

\* C10: with no functions, no operations and no retained text, build() returns the
\* metric name, {labels in insertion order, each name+operator+"value", joined by
\* commas} iff there is a label, [range] iff a range window is set, and
\* " offset <offset>" iff an offset is set.
C10_SelectorText ==
  LET v == View(St, "b")
  IN  (/\ last.op = "build" /\ ~last.raised
       /\ v.functions = <<>> /\ v.binary_ops = <<>> /\ v.arithmetic_ops = <<>>
       /\ v.full_expression = None)
      => last.ret = SelectorText(v.metric)

\* build() has returned http_requests_total{status="200",method="GET"}.
C10_Example ==
  /\ last.op = "build" /\ ~last.raised
  /\ View(St, "b").metric.labels =
       <<LabelMatcher(W_status, W_200, <<"=">>), LabelMatcher(W_method, W_GET, <<"=">>)>>
  /\ last.ret = W_http_requests_total \o <<"{">> \o W_status \o <<"=","\"">> \o W_200
                   \o <<"\"",",">> \o W_method \o <<"=","\"">> \o W_GET \o <<"\"","}">>

\* The text of a value in a rendered operation.
ValueText(v) == IF v.t = "float" THEN v.v[1] \o <<".">> \o v.v[2] ELSE v.v

RECURSIVE CommaList(_)
\* Texts joined by ", ".
CommaList(texts) ==
  IF texts = <<>> THEN <<>>
  ELSE IF Len(texts) = 1 THEN texts[1]
  ELSE texts[1] \o <<",", " ">> \o CommaList(Tail(texts))

\* current wrapped by function f: rate(current) for rate on a metric with a range
\* window, otherwise name(args, $expr replaced by current) and its grouping clause.
FunctionText(current, f, window) ==
  IF f.name = W_rate /\ window # None THEN W_rate \o <<"(">> \o current \o <<")">>
  ELSE f.name \o <<"(">>
         \o CommaList([i \in 1..Len(f.args) |->
                         IF f.args[i] = StrV(W_expr) THEN current ELSE ValueText(f.args[i])])
         \o <<")">>
         \o (IF f.group_by # <<>> THEN <<" ">> \o W_by \o <<" ","(">> \o CommaList(f.group_by) \o <<")">>
             ELSE IF f.without # <<>>
               THEN <<" ">> \o W_without \o <<" ","(">> \o CommaList(f.without) \o <<")">>
             ELSE <<>>)

RECURSIVE FunctionsText(_, _, _)
\* current wrapped by the functions fs, the first innermost.
FunctionsText(current, fs, window) ==
  IF fs = <<>> THEN current
  ELSE FunctionsText(FunctionText(current, fs[1], window), Tail(fs), window)

RECURSIVE OperationsText(_, _)
\* current wrapped by the (operator, value) pairs, the first innermost, each as
\* (<current> <op> <value>).
OperationsText(current, pairs) ==
  IF pairs = <<>> THEN current
  ELSE OperationsText(<<"(">> \o current \o <<" ">> \o pairs[1][1] \o <<" ">>
                        \o ValueText(pairs[1][2]) \o <<")">>,
                      Tail(pairs))

\* The rendering of the structured state v: the selector, wrapped by the functions,
\* then by the arithmetic ops, then by the comparison ops.
StructuredText(v) ==
  OperationsText(
    OperationsText(
      FunctionsText(SelectorText(v.metric), v.functions, v.metric.range_window),
      [i \in 1..Len(v.arithmetic_ops) |->
         <<v.arithmetic_ops[i].operator, v.arithmetic_ops[i].value>>]),
    [i \in 1..Len(v.binary_ops) |-> <<v.binary_ops[i].operator, v.binary_ops[i].right>>])

\* C11: in every state of a builder with a metric and no retained text, build()
\* returns the selector wrapped by every function in list order, then by every
\* arithmetic op in list order as (<current> <op> <value>), then by every
\* comparison op in list order; x with label a="1" and comparison > 5 builds
\* (x{a="1"} > 5).
C11_RenderOrder ==
  LET v == View(St, "b")
  IN  (bld["b"].live /\ v.metric # NoMetric /\ v.full_expression = None) =>
        /\ ~build(St, "b").raised
        /\ build(St, "b").ret = StructuredText(v)
        /\ (/\ v.metric = [name |-> W_x, labels |-> <<LabelMatcher(W_a, W_1, <<"=">>)>>,
                            range_window |-> None, offset |-> None]
            /\ v.functions = <<>> /\ v.arithmetic_ops = <<>>
            /\ v.binary_ops = <<BinaryOperation(<<">">>, IntV(<<"5">>))>>)
           => build(St, "b").ret
                = <<"(","x","{","a","=","\"","1","\"","}"," ",">"," ","5",")">>

\* with_arithmetic_op("*", 100) has returned on x{a="1"} that already held the
\* comparison > 5, and build() returns ((x{a="1"} * 100) > 5).
C11_ArithmeticAddedLast ==
  /\ last.op = "with_arithmetic_op" /\ ~last.raised
  /\ last.before.binary_ops = <<BinaryOperation(<<">">>, IntV(<<"5">>))>>
  /\ last.before.arithmetic_ops = <<>>
  /\ build(St, "b").ret
       = <<"(","(","x","{","a","=","\"","1","\"","}"," ","*"," ","1","0","0",")",
           " ",">"," ","5",")">>

\* C12: the builder parsed from rate(<name>{<labels>}[<d>]) or rate(<name>[<d>])
\* has get_metric_name() = <name>, get_range_window() = <d> and exactly one
\* function, named rate.
C12_RateQuery ==
  \A r \in RateForms :
    (last.op = "PromQLBuilder" /\ last.args[1] = RateText(r)) =>
      /\ ~last.raised
      /\ get_metric_name(St, "b") = r.name
      /\ get_range_window(St, "b") = r.d
      /\ Len(get_functions(St, "b")) = 1
      /\ get_functions(St, "b")[1].name = W_rate

\* C13: the builder parsed from <agg>(...) by (l1, l2) has a function named
\* <agg> with group_by = [l1, l2] and empty without, from <agg>(...) without (l)
\* one with without = [l] and empty group_by, and its functions list holds
\* exactly the functions that occur in the query, each once.
C13_Grouping ==
  \A r \in AggForms :
    (last.op = "PromQLBuilder" /\ last.args[1] = AggText(r)) =>
      /\ ~last.raised
      /\ \E i \in 1..Len(get_functions(St, "b")) :
           /\ get_functions(St, "b")[i].name = r.agg
           /\ get_functions(St, "b")[i].group_by
                = (IF r.kind = W_by THEN r.names ELSE <<>>)
           /\ get_functions(St, "b")[i].without
                = (IF r.kind = W_without THEN r.names ELSE <<>>)
      /\ {get_functions(St, "b")[i].name : i \in 1..Len(get_functions(St, "b"))}
           = AggNames(r)
      /\ Len(get_functions(St, "b")) = Cardinality(AggNames(r))

\* The call that just ended asked to remove what the builder did not hold.
RemovedAbsent ==
  \/ last.op = "remove_binary_op" /\ last.before.binary_ops = <<>>
  \/ last.op = "remove_arithmetic_op" /\ last.before.arithmetic_ops = <<>>
  \/ /\ last.op = "remove_function"
     /\ \A i \in 1..Len(last.before.functions) :
          last.before.functions[i].name # last.args[1]
  \/ /\ last.op = "remove_label"
     /\ last.before.metric # NoMetric
     /\ \A i \in 1..Len(last.before.metric.labels) :
          last.before.metric.labels[i].name # last.args[1]
  \/ last.op = "remove_range" /\ last.before.metric.range_window = None
  \/ last.op = "remove_offset" /\ last.before.metric.offset = None

\* C14: remove_binary_op() and remove_arithmetic_op() on an empty list,
\* remove_function(name) and, with a metric set, remove_label(name) for a name that
\* is not present, remove_range() and remove_offset() with nothing set return
\* normally and leave metric, labels, range, offset, functions and both operation
\* lists as they were.
C14_RemoveAbsent ==
  RemovedAbsent =>
    /\ ~last.raised
    /\ View(St, last.self).metric = last.before.metric
    /\ View(St, last.self).functions = last.before.functions
    /\ View(St, last.self).binary_ops = last.before.binary_ops
    /\ View(St, last.self).arithmetic_ops = last.before.arithmetic_ops

\* remove_binary_op() returned on a builder that holds a metric, a function and an
\* arithmetic operation but no comparison.
C14_RemovedFromEmpty ==
  /\ last.op = "remove_binary_op" /\ ~last.raised
  /\ last.before.binary_ops = <<>>
  /\ last.before.metric # NoMetric
  /\ last.before.functions # <<>>
  /\ last.before.arithmetic_ops # <<>>

\* C15: what get_query_info() returns is a function of the builder's metric,
\* functions, arithmetic ops and comparison ops alone, also on a builder just
\* parsed from text: full_query is their rendering (None without a metric) and the
\* other entries are the fields themselves.
C15_LiveState ==
  (last.op = "get_query_info") =>
    /\ ~last.raised
    /\ last.ret.full_query
         = (IF View(St, last.self).metric = NoMetric THEN None
            ELSE StructuredText(View(St, last.self)))
    /\ last.ret.metric_name = View(St, last.self).metric.name
    /\ last.ret.labels = View(St, last.self).metric.labels
    /\ last.ret.range_window = View(St, last.self).metric.range_window
    /\ last.ret.offset = View(St, last.self).metric.offset
    /\ Len(last.ret.functions) = Len(View(St, last.self).functions)
    /\ \A i \in 1..Len(last.ret.functions) :
         /\ last.ret.functions[i].name = View(St, last.self).functions[i].name
         /\ last.ret.functions[i].group_by = View(St, last.self).functions[i].group_by
         /\ last.ret.functions[i].without = View(St, last.self).functions[i].without
    /\ last.ret.binary_ops
         = [i \in 1..Len(View(St, last.self).binary_ops) |->
              [operator |-> View(St, last.self).binary_ops[i].operator,
               value |-> View(St, last.self).binary_ops[i].right]]
    /\ last.ret.arithmetic_ops = View(St, last.self).arithmetic_ops

\* All but the last element of a list, the empty list for an empty one.
ButLast(items) == SubSeq(items, 1, Len(items) - 1)

\* The call left the builder's structured fields as they were, but for the
\* comparison ops, which became binary_ops, and the arithmetic ops, which became
\* arithmetic_ops.
OpsBecame(binary_ops, arithmetic_ops) ==
  /\ View(St, last.self).metric = last.before.metric
  /\ View(St, last.self).functions = last.before.functions
  /\ View(St, last.self).binary_ops = binary_ops
  /\ View(St, last.self).arithmetic_ops = arithmetic_ops

PlainRate == [name |-> W_rate, args |-> <<StrV(W_expr)>>, group_by |-> <<>>, without |-> <<>>]

\* with_rate(w) led from a builder that looked like old to one that looks like new:
\* the window is w, new's functions are old's with the one named rate replaced by
\* PlainRate where it was, or with PlainRate appended, and nothing else differs.
RateApplied(old, new, w) ==
  /\ new.metric = [old.metric EXCEPT !.range_window = w]
  /\ Cardinality({i \in 1..Len(new.functions) : new.functions[i].name = W_rate}) = 1
  /\ IF \E i \in 1..Len(old.functions) : old.functions[i].name = W_rate
       THEN /\ Len(new.functions) = Len(old.functions)
            /\ \A i \in 1..Len(old.functions) :
                 new.functions[i] = IF old.functions[i].name = W_rate THEN PlainRate
                                    ELSE old.functions[i]
       ELSE new.functions = Append(old.functions, PlainRate)
  /\ new.binary_ops = old.binary_ops
  /\ new.arithmetic_ops = old.arithmetic_ops

\* The builder that with_metric(m).with_rate(w) makes of an empty one.
MetricWithRate(v) ==
  /\ v.metric # NoMetric
  /\ v.metric.labels = <<>> /\ v.metric.offset = None
  /\ IsDuration(v.metric.range_window)
  /\ v.functions = <<PlainRate>>
  /\ v.binary_ops = <<>> /\ v.arithmetic_ops = <<>>
  /\ v.full_expression = None

\* C17: with_rate(w) on a builder with a metric, w a duration, leaves the state that
\* with_range(w) followed by with_function("rate", "$expr") leaves: the window is w
\* and one function is named rate, with args ["$expr"] and no grouping, put where
\* a rate function was or appended; and build() on the builder that
\* with_metric(m).with_rate(w) made returns rate(m[w]).
C17_WithRate ==
  [][/\ (last'.op = "with_rate" /\ HasMetric(St, "b") /\ IsDuration(last'.args[1])) =>
          /\ ~last'.raised
          /\ View(StNext, "b")
               = View(with_function(with_range(St, "b", last'.args[1]).st, "b",
                                    W_rate, <<StrV(W_expr)>>, <<>>, <<>>).st, "b")
          /\ ~with_range(St, "b", last'.args[1]).raised
          /\ RateApplied(View(St, "b"), View(StNext, "b"), last'.args[1])
     /\ (last'.op = "build" /\ MetricWithRate(View(St, "b"))) =>
          /\ ~last'.raised
          /\ last'.ret = W_rate \o <<"(">> \o View(St, "b").metric.name \o <<"[">>
                           \o View(St, "b").metric.range_window \o <<"]",")">>
    ]_vars

\* with_rate("1h") returned on a builder whose second function was a rate grouped
\* by job and whose window was 5m, set by an earlier with_rate.
C17_RateTwice ==
  /\ last.op = "with_rate" /\ ~last.raised
  /\ last.args[1] = W_1h
  /\ last.before.metric.range_window = W_5m
  /\ Len(last.before.functions) = 2
  /\ last.before.functions[2].name = W_rate
  /\ last.before.functions[2].group_by = <<W_job>>
  /\ get_range_window(St, "b") = W_1h

\* C18: PromQLBuilder(query) raises, and makes no builder, for a query whose range
\* or offset is not digits followed by one of s, m, h, d, w, y.
C18_InvalidDuration ==
  \A r \in WindowForms :
    ( /\ last.op = "PromQLBuilder" /\ last.args[1] = WindowText(r)
      /\ \/ r.range # None /\ ~IsDuration(r.range)
         \/ r.offset # None /\ ~IsDuration(r.offset) )
    => last.raised /\ ~bld["b"].live

\* The characters a token can start with, and whitespace.
Recognised ==
  Space \cup Digit \cup Lower \cup Upper
    \cup {"_", "\"", "=", "!", "<", ">", "+", "-", "*", "/", "%", "^",
          "{", "}", "[", "]", "(", ")", ","}

\* The characters of text from offset from up to, not including, offset to are
\* whitespace.
Blank(text, from, to) == \A k \in from..(to - 1) : k < Len(text) => text[k + 1] \in Space

\* The tokens read so far lie one after the other, each at least one character
\* long, with only whitespace before, between and after them up to self.pos.
TokensCover(lx) ==
  /\ Len(lx.stops) = Len(lx.tokens)
  /\ \A i \in 1..Len(lx.tokens) :
       /\ lx.tokens[i].position < lx.stops[i]
       /\ lx.tokens[i].position < Len(lx.text)
       /\ lx.text[lx.tokens[i].position + 1] \notin Space
       /\ Blank(lx.text, IF i = 1 THEN 0 ELSE lx.stops[i - 1], lx.tokens[i].position)
       /\ i > 1 => lx.stops[i - 1] <= lx.tokens[i].position
  /\ \A i, j \in 1..Len(lx.tokens) : i < j => lx.tokens[i].position < lx.tokens[j].position
  /\ Blank(lx.text, IF lx.tokens = <<>> THEN 0 ELSE lx.stops[Len(lx.stops)], lx.pos)
  /\ lx.tokens # <<>> => lx.stops[Len(lx.stops)] <= lx.pos

\* C19, as the code has it: tokenize ends on every text; its tokens have strictly
\* increasing positions and, with the whitespace between them, cover the text up to
\* self.pos, which is the end of the text when tokenize returns; it raises where
\* a token would have to start with a character that is not whitespace, a digit,
\* a letter, underscore, double quote, one of = ! < > + - * / % ^ or one of
\* { } [ ] ( ) , and reports that character and its offset.
C19_Tokenize ==
  /\ [](lexer.status # "none" =>
          /\ TokensCover(lexer)
          /\ lexer.status = "returned" => lexer.pos >= Len(lexer.text)
          /\ lexer.status = "raised" =>
               /\ lexer.pos < Len(lexer.text)
               /\ lexer.message.position = lexer.pos
               /\ lexer.message.char = lexer.text[lexer.pos + 1]
               /\ lexer.message.char \notin Recognised)
  /\ <>(lexer.status \in {"returned", "raised"})

\* tokenize raised after a token that holds a character no token can start with.
C19_RaisedAfterToken ==
  /\ lexer.status = "raised"
  /\ lexer.tokens # <<>>
  /\ \E k \in 0..(lexer.message.position - 1) : lexer.text[k + 1] \notin Recognised

\* C19 as stated: when tokenize raises, the character it reports is the first
\* character of the text that is not whitespace, a digit, a letter, underscore,
\* double quote, one of = ! < > + - * / % ^ or one of { } [ ] ( ) , .
C19_RaisesAtFirstUnlisted ==
  (lexer.status = "raised") =>
    /\ lexer.text[lexer.message.position + 1] \notin Recognised
    /\ \A k \in 0..(lexer.message.position - 1) : lexer.text[k + 1] \in Recognised

\* C20: parse_expression returns an expression tree or raises a ValueError whose
\* message holds the token type found, EOF when the tokens have run out; it raises
\* nothing else, wherever the tokens end.
C20_ParseError ==
  (last.op = "parse_expression") =>
    \/ ~last.raised /\ last.ret.ok
    \/ /\ last.raised
       /\ last.ret.exception = "ValueError"
       /\ last.ret.found = (IF HasToken(lexer.tokens, last.ret.pos)
                              THEN lexer.tokens[last.ret.pos + 1].type ELSE "EOF")

\* C21: in every state, each function the builder holds has an empty group_by or
\* an empty without.
C21_OneGrouping ==
  \A i \in 1..Len(View(St, "b").functions) :
    \/ View(St, "b").functions[i].group_by = <<>>
    \/ View(St, "b").functions[i].without = <<>>

\* C22: in every state, each label matcher of the builder's metric has one of the
\* operators =, !=, =~, !~.
C22_MatcherOperators ==
  View(St, "b").metric # NoMetric =>
    \A i \in 1..Len(View(St, "b").metric.labels) :
      View(St, "b").metric.labels[i].operator \in LabelOperators

\* How many times ch occurs in text.
Occurrences(text, ch) == Cardinality({i \in 1..Len(text) : text[i] = ch})

\* The function named rate among fs, rendered around current: rate(<current>) when
\* the metric has the range window, otherwise name(args with $expr replaced by
\* current) followed by its grouping clause.
RateText23(current, f, window) ==
  IF window # None THEN W_rate \o <<"(">> \o current \o <<")">>
  ELSE W_rate \o <<"(">>
         \o CommaList([i \in 1..Len(f.args) |->
                         IF f.args[i] = StrV(W_expr) THEN current ELSE ValueText(f.args[i])])
         \o <<")">>
         \o (IF f.group_by # <<>>
               THEN <<" ">> \o W_by \o <<" ","(">> \o CommaList(f.group_by) \o <<")">>
             ELSE IF f.without # <<>>
               THEN <<" ">> \o W_without \o <<" ","(">> \o CommaList(f.without) \o <<")">>
             ELSE <<>>)

\* C23: when build() has rendered a builder without operations whose last function
\* is named rate, the text is rate(<current>) if the metric has a range window,
\* current being the rendering of the selector and the functions before rate, and
\* the window's bracket occurs once; without a range window the text is
\* rate(<args, $expr replaced by current>) followed by rate's grouping clause.
C23_RateRendering ==
  LET v == View(St, "b")
      n == Len(v.functions)
  IN  (/\ last.op = "build" /\ ~last.raised
       /\ ~ReturnsOriginal(v.full_expression)
       /\ n > 0 /\ v.binary_ops = <<>> /\ v.arithmetic_ops = <<>>)
      => (v.functions[n].name = W_rate =>
            /\ last.ret
                 = RateText23(FunctionsText(SelectorText(v.metric), ButLast(v.functions),
                                            v.metric.range_window),
                              v.functions[n], v.metric.range_window)
            /\ v.metric.range_window # None => Occurrences(last.ret, "[") = 1)

\* build() has returned rate(x[5m]) for a builder whose function rate carries a
\* second argument and a by clause.
C23_GroupedRateWithWindow ==
  /\ last.op = "build" /\ ~last.raised
  /\ View(St, "b").functions = <<Function(W_rate, <<StrV(W_expr), IntV(W_1)>>, <<W_job>>, <<>>)>>
  /\ last.ret = W_rate \o <<"(">> \o W_x \o <<"[">> \o W_5m \o <<"]",")">>

\* The place of the first operator token among tokens.
OperatorAt(tokens) ==
  CHOOSE i \in 1..Len(tokens) :
    /\ tokens[i].type \in {"ARITHMETIC_OP", "BINARY_OP"}
    /\ \A j \in 1..(i - 1) : tokens[j].type \notin {"ARITHMETIC_OP", "BINARY_OP"}

\* What parse_expression returns for the tokens before the operator alone.
LeftOperand(tokens) ==
  parse_expression(SubSeq(tokens, 1, OperatorAt(tokens) - 1), 0).value

\* The operand after the operator: the number, or what parse_expression returns
\* for the tokens after the operator alone.
RightOperand(tokens) == RightSide(SubSeq(tokens, OperatorAt(tokens) + 1, Len(tokens)), 0).value

\* C24: when parse_expression has parsed <left> <op> <right>, it has returned a
\* node: for an arithmetic operator the node (left, op, right); for a comparison
\* operator a node whose right operand is right and that has a component besides
\* the operator and the right operand, to hold left.
C24_LeftKept ==
  \A r \in OperationForms :
    (last.op = "parse_expression" /\ lexer.text = OperationText(r)) =>
      /\ ~last.raised
      /\ IF r.op \in ArithmeticTexts
           THEN last.ret.value
                  = <<LeftOperand(lexer.tokens), r.op, RightOperand(lexer.tokens)>>
           ELSE /\ last.ret.value.right = RightOperand(lexer.tokens)
                /\ \E field \in DOMAIN last.ret.value : field \notin {"operator", "right"}

\* C25: when with_arithmetic_op(op, value) has returned, the operation it appended
\* has is_scalar = TRUE if value is an int or a float and FALSE if it is a text.
C25_IsScalar ==
  (last.op = "with_arithmetic_op" /\ ~last.raised) =>
    LET ops == View(St, "b").arithmetic_ops
    IN  /\ ops # <<>>
        /\ ops[Len(ops)].value = last.args[2]
        /\ ops[Len(ops)].is_scalar = (last.args[2].t \in {"int", "float"})

\* C26: when with_metric(name) has returned, the metric is a selector with that
\* name, no labels, no range window and no offset, and the functions, the
\* arithmetic ops and the comparison ops are what they were when it was called.
C26_WithMetric ==
  (last.op = "with_metric") =>
    /\ ~last.raised
    /\ View(St, "b").metric
         = [name |-> last.args[1], labels |-> <<>>, range_window |-> None, offset |-> None]
    /\ View(St, "b").functions = last.before.functions
    /\ View(St, "b").arithmetic_ops = last.before.arithmetic_ops
    /\ View(St, "b").binary_ops = last.before.binary_ops

\* with_metric has returned on a builder that held a selector with a label and a
\* range window, a function and an operation of each kind.
C26_ReplacedFullSelector ==
  /\ last.op = "with_metric" /\ ~last.raised
  /\ last.before.metric # NoMetric
  /\ last.before.metric.labels # <<>>
  /\ last.before.metric.range_window # None
  /\ last.before.functions # <<>>
  /\ last.before.arithmetic_ops # <<>>
  /\ last.before.binary_ops # <<>>

\* C27: in every state the metric's range_window is unset or a duration, and so is
\* its offset.
C27_DurationsHeld ==
  View(St, "b").metric # NoMetric =>
    /\ View(St, "b").metric.range_window = None \/ IsDuration(View(St, "b").metric.range_window)
    /\ View(St, "b").metric.offset = None \/ IsDuration(View(St, "b").metric.offset)

\* <agg>(rate(<selector>)) and the by clause of form r.
NestedText(r, selector) ==
  r.agg \o <<"(">> \o W_rate \o <<"(">> \o selector \o <<")",")">>
    \o (IF r.by = None THEN <<>> ELSE <<" ">> \o W_by \o <<" ","(">> \o r.by \o <<")">>)

\* C28: when build() has rendered a builder that was parsed from
\* <agg>(rate(m...)) by (l) and then changed by mutators that leave the functions
\* alone, the text is <agg>(rate(<selector>)) by (l), wrapped by the comparison
\* ops: the aggregation outside, rate around the selector.
C28_Nesting ==
  LET v == View(St, "b")
  IN  (last.op = "build" /\ ~last.raised /\ v.full_expression = None) =>
        \E r \in NestingForms :
          last.ret
            = OperationsText(NestedText(r, SelectorText(v.metric)),
                             [i \in 1..Len(v.binary_ops) |->
                                <<v.binary_ops[i].operator, v.binary_ops[i].right>>])

\* C29: when build() has rendered the structured state, the text of the metric
\* selector occurs in what it returned.
C29_SelectorKept ==
  (last.op = "build" /\ ~last.raised /\ ~ReturnsOriginal(View(St, "b").full_expression)) =>
    Contains(last.ret, SelectorText(View(St, "b").metric))

\* C30: when build() or an accessor has ended, whether it returned or raised, the
\* metric, its labels, range window and offset, the functions, the two lists of
\* operations and the retained text are what they were when it was called; and a
\* build() called in the state build() has left returns the same text.
C30_Pure ==
  /\ (last.op \in {"build", "get_query_info"} \cup Accessors) => View(St, "b") = last.before
  /\ (last.op = "build" /\ ~last.raised) =>
       /\ ~build(St, "b").raised
       /\ build(St, "b").ret = last.ret
       /\ View(build(St, "b").st, "b") = last.before

\* build() has returned the retained text of a parsed builder, which still holds it.
C30_BuiltFromText ==
  /\ last.op = "build" /\ ~last.raised
  /\ last.before.full_expression # None
  /\ last.ret = last.before.full_expression
  /\ last.before.metric.labels # <<>>

=============================================================================
